---- MODULE Spec2Model ----
(***************************************************************************)
(* Refresh Job Orchestrator of server/index.js: the youtube_refresh_jobs   *)
(* table, the cached summary, the enqueue path                             *)
(* (createAndStartYouTubeRefreshJob), the detached job execution           *)
(* (runYouTubeRefreshJob) and the endpoints that reach them.               *)
(*                                                                         *)
(* Every store request goes through requestSupabaseTable, which never      *)
(* throws: it answers {ok: true} or {ok: false}.  Each request of a        *)
(* handler is one step of the model and draws its outcome from BOOLEAN;    *)
(* a request answered {ok: false} leaves the table unchanged.              *)
(*                                                                         *)
(* Time is the model clock `now`; Date.now() and new Date() read it.       *)
(***************************************************************************)
EXTENDS Integers, Sequences, FiniteSets, TLC

\* ---------------------------------------------------------------- bounds
MaxJobs == 2
MaxTime == 2
MaxPending == 2
MaxFaults == 1

\* ------------------------------------------------------------- constants
\* YOUTUBE_AUTO_REFRESH_INTERVAL_MS (24 h) and
\* YOUTUBE_AUTO_REFRESH_RETRY_COOLDOWN_MS (10 min), each scaled to one
\* tick of the model clock: a timestamp is within the interval exactly
\* when it was taken at the current tick.
YOUTUBE_AUTO_REFRESH_INTERVAL_MS == 1
YOUTUBE_AUTO_REFRESH_RETRY_COOLDOWN_MS == 1

Users == {"u1"}
Channels == {"c1", "c2"}
Outcomes == {"ok", "fail", "throw"}

NULL == 0
LoadErrorMessage == "Unable to load connected YouTube channels."

VARIABLES
    jobs,         \* youtube_refresh_jobs: sequence of rows, id = index
    run,          \* per job: the position and locals of runYouTubeRefreshJob
    cache,        \* youtube_cached_summaries: user -> row or NoRow
    connections,  \* youtube_connections: user -> set of channel ids
    pending,      \* enqueue calls between their lookup and their insert
    response,     \* what the step just taken answered to its caller, with
                  \* what the job table held when the call was issued
    external,     \* what the external APIs do for each channel's calls
    faults,       \* store requests answered {ok: false} so far
    now,          \* wall clock
    tokens,       \* one connection's stored tokens and the
                  \* ensureValidAccessToken calls made on it
    reports,      \* one reporting job's exports, its parsed-report cache
                  \* and the last getReportingDataForJob result
    csv,          \* one CSV content and what parseCsvRows makes of it
    series,       \* the three sources' time series and the merged one
    percent,      \* one magnitude map and the percent lists built from it
    poller,       \* one waitForYouTubeRefresh call and the job it polls
    reportingJobs, \* one channel's recorded reporting jobs, the external
                  \* job list and the calls of ensureReportingJobs
    audience,     \* one connection's audience queries in
                  \* buildAnalyticsSummary and the requests issued
    merge,        \* the sources' lists of the four merged fields and the
                  \* lists buildLiveYouTubeSummary returns for them
    ranking,      \* daily video rows and a geo map, and the topPosts and
                  \* topGeos ranked from them
    followers     \* the channel-daily rows of two channels and the
                  \* followersDelta30d of their entries

\* The state of the library functions that are checked on their own.
aggVars == <<merge, ranking, followers>>
libVars == <<csv, series, percent, poller, reportingJobs, audience, aggVars>>
vars == <<jobs, run, cache, connections, pending, response, external, faults, now,
          tokens, reports, libVars>>
refreshVars == <<jobs, run, cache, connections, pending, response, external, faults>>

NoRow == [present |-> FALSE]
NoResponse == [kind |-> "none"]

JobIds == 1..Len(jobs)
IsActive(status) == status \in {"queued", "running"}
IsTerminal(status) == status \in {"succeeded", "failed"}

\* ------------------------------------------------------------ summaries
buildEmptyYouTubeSummary == [channels |-> {}, reporting |-> {}, analytics |-> {}]

\* buildReportingSummary / buildAnalyticsSummary: one loop over the
\* connections with no catch inside it; an error response makes the
\* connection contribute nothing, a thrown network error leaves the loop.
SourceThrows(conns, outcome) == \E c \in conns : outcome[c] = "throw"
SourceRows(conns, outcome) == {c \in conns : outcome[c] = "ok"}

\* buildLiveYouTubeSummary: the snapshot loop swallows every failure per
\* connection; the reporting and the analytics summary are each wrapped in
\* a try/catch that keeps the empty default.  Result: the summary, and
\* whether the function itself threw.
buildLiveYouTubeSummaryThrowing(conns, outcome) ==
    [threw   |-> SourceThrows(conns, outcome),
     summary |-> [channels  |-> SourceRows(conns, outcome),
                  reporting |-> SourceRows(conns, outcome),
                  analytics |-> SourceRows(conns, outcome)]]

buildLiveYouTubeSummary(conns, outcome) ==
    [threw   |-> FALSE,
     summary |-> [channels  |-> SourceRows(conns, outcome),
                  reporting |-> IF SourceThrows(conns, outcome) THEN {}
                                ELSE SourceRows(conns, outcome),
                  analytics |-> IF SourceThrows(conns, outcome) THEN {}
                                ELSE SourceRows(conns, outcome)]]

\* ------------------------------------------------------------ job store
\* PATCH youtube_refresh_jobs?user_id=eq.u&id=eq.j with body `payload`.
PatchRow(row, payload) ==
    [f \in DOMAIN row |-> IF f \in DOMAIN payload THEN payload[f] ELSE row[f]]

updateYouTubeRefreshJobAllRows(js, u, j, payload) ==
    [i \in DOMAIN js |-> IF js[i].userId = u THEN PatchRow(js[i], payload) ELSE js[i]]

updateYouTubeRefreshJob(js, u, j, payload) ==
    [i \in DOMAIN js |-> IF js[i].userId = u /\ i = j THEN PatchRow(js[i], payload)
                         ELSE js[i]]

\* order=requested_at.desc&limit=1 over the user's rows; 0 when there is
\* none.  Rows inserted at the same tick are ordered by insertion (the
\* real timestamps have millisecond resolution).
getLatestYouTubeRefreshJobOfAnyUser(u) ==
    LET mine == JobIds
    IN  IF mine = {} THEN 0
        ELSE CHOOSE i \in mine :
                \A k \in mine :
                    \/ jobs[k].requestedAt < jobs[i].requestedAt
                    \/ (jobs[k].requestedAt = jobs[i].requestedAt /\ k <= i)

getLatestYouTubeRefreshJobByUserId(u) ==
    LET mine == {i \in JobIds : jobs[i].userId = u}
    IN  IF mine = {} THEN 0
        ELSE CHOOSE i \in mine :
                \A k \in mine :
                    \/ jobs[k].requestedAt < jobs[i].requestedAt
                    \/ (jobs[k].requestedAt = jobs[i].requestedAt /\ k <= i)

ActiveJobsOf(u) == {i \in JobIds : jobs[i].userId = u /\ IsActive(jobs[i].status)}

\* The external behaviours considered: the calls made for channel c1
\* succeed, all return error responses, or all throw a network error;
\* the calls made for the other channel succeed.
ExternalCases == {f \in [Channels -> Outcomes] : f["c2"] = "ok"}

\* The channelNames of a disconnect request: none given (all connections),
\* or the names of both channels.
DisconnectRequests == {{}, {"c1", "c2"}}

\* requestSupabaseTable answering: `oks` are the outcomes of the requests
\* of one step, each {ok: false} counted.
Failed(oks) == Cardinality({i \in DOMAIN oks : ~oks[i]})
Answers(oks) ==
    /\ faults + Failed(oks) <= MaxFaults
    /\ faults' = faults + Failed(oks)

\* A connection's token fields; accessToken "" is an absent token,
\* expiresAt 0 an unknown expiry.
NoConnection == [accessToken |-> "", expiresAt |-> 0, refreshToken |-> ""]
IdleTokens(connection) ==
    [stored |-> connection, initial |-> connection, calls |-> <<>>,
     issued |-> 0, writes |-> <<>>]

\* No cached parsed report; no export listed.
NoReport == [reportId |-> 0, data |-> 0]
IdleReports == [exports |-> <<>>, published |-> 0, cached |-> NoReport,
                returned |-> FALSE, result |-> NoReport, before |-> NoReport,
                listOk |-> TRUE, failed |-> {}]

\* No content parsed.
IdleCsv == [table |-> <<>>, content |-> <<>>, parsed |-> FALSE, rows |-> <<>>]

\* No series merged.
IdleSeries == [analytics |-> <<>>, reporting |-> <<>>, snapshot |-> <<>>,
               merged |-> <<>>, done |-> FALSE]

\* No percent list built.
IdlePercent == [map |-> <<>>, analytics |-> <<>>, reporting |-> <<>>,
                done |-> FALSE]

\* No waitForYouTubeRefresh call.
IdlePoller == [pc |-> "idle", elapsed |-> 0, job |-> "queued", reads |-> <<>>,
               progress |-> <<>>, result |-> "", error |-> ""]

\* The report types ensured, in the order of the loop, and a channel with
\* no recorded job, no external job and no ensureReportingJobs call.
ReportKeys == <<"channelDaily", "geo">>
KeySet == {ReportKeys[i] : i \in 1..Len(ReportKeys)}
NoJobs == [k \in KeySet |-> 0]
IdleReporting ==
    [stored |-> FALSE, recorded |-> NoJobs, jobsList |-> <<>>, calls |-> <<>>,
     createdWhenPresent |-> {}, replaced |-> {}]

\* The audience queries of one connection, none begun: the query being
\* resolved, the window and candidate of its next request, the requests
\* issued so far and what each query returned.
AudienceQueries == {"ageGender", "age", "gender", "geo"}
IdleAudience ==
    [hasChannelId |-> TRUE, query |-> "idle", window |-> 1, candidate |-> 1,
     issued |-> <<>>,
     returned |-> [q \in AudienceQueries |-> [state |-> "pending", rows |-> 0,
                                              days |-> 0, candidate |-> 0]]]

\* Nothing to merge, rank or sum yet.
IdleMerge == [given |-> FALSE]
IdleRanking == [given |-> FALSE]
IdleFollowers == [given |-> FALSE]
IdleAgg ==
    /\ merge = IdleMerge
    /\ ranking = IdleRanking
    /\ followers = IdleFollowers

IdleLib ==
    /\ IdleAgg
    /\ csv = IdleCsv
    /\ series = IdleSeries
    /\ percent = IdlePercent
    /\ poller = IdlePoller
    /\ reportingJobs = IdleReporting
    /\ audience = IdleAudience

\* ----------------------------------------------------------------- Init
Init ==
    /\ jobs = <<>>
    /\ run = <<>>
    /\ cache = [u \in Users |-> NoRow]
    /\ connections = [u \in Users |-> IF u = "u1" THEN Channels ELSE {}]
    /\ pending = <<>>
    /\ response = NoResponse
    /\ external \in ExternalCases
    /\ faults = 0
    /\ now = 1
    /\ tokens = IdleTokens(NoConnection)
    /\ reports = IdleReports
    /\ IdleLib

\* ------------------------------------------------------------- requests
\* The caller of a manual enqueue read nothing.
ManualCaller == [via |-> "post"]

\* A handler that answers an HTTP error before it issues any enqueue, at
\* request level (resolveYouTubeViewer failed: 401; empty job id: 400;
\* unknown job id: 404) or because a store read failed (5xx).
RequestErrorEnqueuing(level) ==
    /\ response' = [kind |-> "http_error", level |-> level]
    /\ pending' = Append(pending, [user |-> "u1", trigger |-> "manual",
                                   minIntervalMs |-> 0, caller |-> ManualCaller,
                                   activeAtIssue |-> {}, cooldownAtIssue |-> 0,
                                   latestActiveAtIssue |-> FALSE,
                                   latestStatusAtIssue |-> "",
                                   requestedAt |-> now])

RequestError(level) ==
    /\ response' = [kind |-> "http_error", level |-> level]
    /\ pending' = pending

\* What the automatic caller of an enqueue had read (rowRead: the cached
\* row, NoRow when none or when the read failed; hasConnections) and what
\* the store held at that time (connected, fresh).
Caller(via, u, rowRead, hasConnections) ==
    [via |-> via, rowRead |-> rowRead, hasConnections |-> hasConnections,
     connected |-> connections[u] # {},
     fresh |-> (cache[u].present
                /\ now - cache[u].generatedAt < YOUTUBE_AUTO_REFRESH_INTERVAL_MS)]

\* -------------------------------------------------------------- enqueue
\* createAndStartYouTubeRefreshJob up to its insert request: the lookup of
\* the latest job (lookupOk: its outcome), the dedup return, the cooldown
\* return, or the decision to insert.  The answer carries what the job
\* table held when the call was issued: the active jobs, the job inside the
\* cooldown window, the status of the latest job ("": no job).
EnqueueLookup(u, trigger, reuseRunning, minIntervalMs, lookupOk, caller) ==
    LET latest == IF lookupOk THEN getLatestYouTubeRefreshJobByUserId(u) ELSE 0
        active == ActiveJobsOf(u)
        trueLatest == getLatestYouTubeRefreshJobByUserId(u)
        cooling == IF minIntervalMs > 0 /\ trueLatest # 0
                      /\ now - jobs[trueLatest].requestedAt < minIntervalMs
                   THEN trueLatest ELSE 0
        seen == [kind |-> "enqueue", user |-> u, trigger |-> trigger,
                 minIntervalMs |-> minIntervalMs, caller |-> caller,
                 activeAtIssue |-> active, cooldownAtIssue |-> cooling,
                 latestActiveAtIssue |->
                     (trueLatest # 0 /\ IsActive(jobs[trueLatest].status)),
                 latestStatusAtIssue |->
                     IF trueLatest # 0 THEN jobs[trueLatest].status ELSE ""]
    IN  IF latest # 0 /\ reuseRunning /\ IsActive(jobs[latest].status)
        THEN /\ response' = (seen @@ [ok |-> TRUE, jobId |-> latest,
                                      status |-> jobs[latest].status,
                                      deduped |-> TRUE, inserted |-> FALSE])
             /\ UNCHANGED pending
        ELSE IF latest # 0 /\ minIntervalMs > 0 /\ jobs[latest].requestedAt > 0
                /\ now - jobs[latest].requestedAt < minIntervalMs
        THEN /\ response' = (seen @@ [ok |-> TRUE, jobId |-> latest,
                                      status |-> jobs[latest].status,
                                      deduped |-> TRUE, inserted |-> FALSE])
             /\ UNCHANGED pending
        ELSE /\ Len(pending) < MaxPending
             /\ Len(jobs) + Len(pending) < MaxJobs
             /\ pending' = Append(pending, [user |-> u, trigger |-> trigger,
                                         minIntervalMs |-> minIntervalMs,
                                         caller |-> caller,
                                         activeAtIssue |-> active,
                                         cooldownAtIssue |-> cooling,
                                         latestActiveAtIssue |-> seen.latestActiveAtIssue,
                                         latestStatusAtIssue |-> seen.latestStatusAtIssue,
                                         requestedAt |-> now])
             /\ response' = NoResponse

\* The row's meta column holds which of the three shapes the code writes:
\* { trigger } at insert, { message } or the counts at the final update.
NewJob(p) ==
    [userId |-> p.user, status |-> "queued", requestedAt |-> p.requestedAt,
     startedAt |-> NULL, finishedAt |-> NULL, errorMessage |-> "",
     channelsTotal |-> 0, channelsProcessed |-> 0, meta |-> "trigger"]

NewRunAwaited == [pc |-> "done", conns |-> {}, loadFailed |-> FALSE, cacheFailed |-> FALSE]

NewRun == [pc |-> "start", conns |-> {}, loadFailed |-> FALSE, cacheFailed |-> FALSE]

RemoveAt(s, i) == SubSeq(s, 1, i - 1) \o SubSeq(s, i + 1, Len(s))

\* createAndStartYouTubeRefreshJob from its insert request on: the row is
\* inserted and runYouTubeRefreshJob started detached, or the insert fails
\* and the call answers youtube_refresh_job_create_failed.
EnqueueInsert ==
    \E i \in 1..Len(pending), insertOk \in BOOLEAN :
        LET p == pending[i]
            seen == [kind |-> "enqueue", user |-> p.user, trigger |-> p.trigger,
                     minIntervalMs |-> p.minIntervalMs, caller |-> p.caller,
                     activeAtIssue |-> p.activeAtIssue,
                     cooldownAtIssue |-> p.cooldownAtIssue,
                     latestActiveAtIssue |-> p.latestActiveAtIssue,
                     latestStatusAtIssue |-> p.latestStatusAtIssue]
        IN  /\ Answers(<<insertOk>>)
            /\ pending' = RemoveAt(pending, i)
            /\ IF insertOk
               THEN /\ jobs' = Append(jobs, NewJob(p))
                    /\ run' = Append(run, NewRun)
                    /\ response' = (seen @@ [ok |-> TRUE, jobId |-> Len(jobs) + 1,
                                             status |-> "queued",
                                             deduped |-> FALSE, inserted |-> TRUE])
               ELSE /\ response' = (seen @@ [ok |-> FALSE, jobId |-> 0, status |-> "",
                                             deduped |-> FALSE, inserted |-> FALSE])
                    /\ UNCHANGED <<jobs, run>>
            /\ UNCHANGED <<cache, connections, external, now, tokens, reports, libVars>>

\* POST /api/youtube/refresh
PostRefreshCooldownGated ==
    \E u \in Users, authed \in BOOLEAN, lookupOk \in BOOLEAN :
        /\ ~authed => lookupOk
        /\ Answers(<<lookupOk>>)
        /\ IF ~authed THEN RequestError("request")
           ELSE EnqueueLookup(u, "manual", TRUE,
                              YOUTUBE_AUTO_REFRESH_RETRY_COOLDOWN_MS, lookupOk,
                              ManualCaller)
        /\ UNCHANGED <<jobs, run, cache, connections, external, now, tokens, reports, libVars>>

PostRefresh ==
    \E u \in Users, authed \in BOOLEAN, lookupOk \in BOOLEAN :
        /\ ~authed => lookupOk
        /\ Answers(<<lookupOk>>)
        /\ IF ~authed THEN RequestError("request")
           ELSE EnqueueLookup(u, "manual", TRUE, 0, lookupOk, ManualCaller)
        /\ UNCHANGED <<jobs, run, cache, connections, external, now, tokens, reports, libVars>>

\* maybeQueueAutoYouTubeRefresh: {queued: false} without connections or
\* with a fresh cache (generatedAt = NULL: no cached row was read);
\* otherwise enqueue with reuseRunning and the retry cooldown.
IsStaleNever(generatedAt) ==
    generatedAt <= 0

IsStale(generatedAt) ==
    generatedAt <= 0 \/ now - generatedAt >= YOUTUBE_AUTO_REFRESH_INTERVAL_MS

WouldQueueAuto(hasConnections, generatedAt) == hasConnections /\ IsStale(generatedAt)

maybeQueueAutoYouTubeRefresh(u, hasConnections, generatedAt, lookupOk, caller) ==
    IF WouldQueueAuto(hasConnections, generatedAt)
    THEN EnqueueLookup(u, "auto", TRUE, YOUTUBE_AUTO_REFRESH_RETRY_COOLDOWN_MS,
                       lookupOk, caller)
    ELSE /\ pending' = pending
         /\ response' = IF caller.via = "summary"
                        THEN [kind |-> "not_queued", user |-> u, caller |-> caller]
                        ELSE NoResponse

CachedGeneratedAt(u, readOk) ==
    IF readOk /\ cache[u].present THEN cache[u].generatedAt ELSE NULL

\* normalizeCachedSummaryPayload: each field of the stored summary, an
\* empty list for a field that is missing.
normalizeCachedSummaryPayload(payload) ==
    [f \in DOMAIN buildEmptyYouTubeSummary |->
        IF f \in DOMAIN payload THEN payload[f] ELSE {}]

\* The body GET /api/youtube/summary answers for the cached row it read.
SummaryBody(rowRead) ==
    IF rowRead.present
    THEN [cacheStatus |-> "ready",
          summary |-> normalizeCachedSummaryPayload(rowRead.summary),
          generatedAt |-> rowRead.generatedAt]
    ELSE [cacheStatus |-> "empty", summary |-> buildEmptyYouTubeSummary,
          generatedAt |-> NULL]

\* GET /api/youtube/summary: a failed cache read answers an error at once;
\* a failed connection read counts as no connections.  The body is
\* SummaryBody of the row read, with autoRefresh.queued = the enqueue's ok.
GetSummary ==
    \E u \in Users, authed \in BOOLEAN, cacheOk \in BOOLEAN, connOk \in BOOLEAN,
       lookupOk \in BOOLEAN :
        LET hasConnections == connOk /\ connections[u] # {}
            generatedAt == CachedGeneratedAt(u, TRUE)
            caller == Caller("summary", u, cache[u], hasConnections)
        IN  /\ ~authed => (cacheOk /\ connOk)
            /\ ~cacheOk => connOk
            /\ ~(authed /\ cacheOk /\ WouldQueueAuto(hasConnections, generatedAt))
                  => lookupOk
            /\ Answers(<<cacheOk, connOk, lookupOk>>)
            /\ IF ~authed THEN RequestError("request")
               ELSE IF ~cacheOk THEN RequestError("store")
               ELSE maybeQueueAutoYouTubeRefresh(u, hasConnections, generatedAt,
                                                 lookupOk, caller)
            /\ UNCHANGED <<jobs, run, cache, connections, external, now, tokens, reports, libVars>>

\* runScheduledYouTubeAutoRefresh, one iteration of its loop: a user that
\* has a connection row; a failed cache read counts as no generatedAt.
ScheduledSweep ==
    \E u \in Users, cacheOk \in BOOLEAN, lookupOk \in BOOLEAN :
        LET generatedAt == CachedGeneratedAt(u, cacheOk)
            caller == Caller("sweep", u, IF cacheOk THEN cache[u] ELSE NoRow, TRUE)
        IN  /\ connections[u] # {}
            /\ ~WouldQueueAuto(TRUE, generatedAt) => lookupOk
            /\ Answers(<<cacheOk, lookupOk>>)
            /\ maybeQueueAutoYouTubeRefresh(u, TRUE, generatedAt, lookupOk, caller)
            /\ UNCHANGED <<jobs, run, cache, connections, external, now, tokens, reports, libVars>>

\* GET /api/youtube/refresh/:jobId: reads one row of the user, writes
\* nothing.  jobId 0 is the empty id, an id beyond the table an unknown one.
GetRefreshStatus ==
    \E u \in Users, authed \in BOOLEAN, jobId \in 0..(Len(jobs) + 1),
       readOk \in BOOLEAN :
        /\ (~authed \/ jobId = 0) => readOk
        /\ Answers(<<readOk>>)
        /\ IF ~authed THEN RequestError("request")
           ELSE IF jobId = 0 THEN RequestError("request")
           ELSE IF ~readOk THEN RequestError("store")
           ELSE IF jobId \notin JobIds \/ jobs[jobId].userId # u THEN RequestError("request")
           ELSE /\ response' = [kind |-> "status", user |-> u, jobId |-> jobId]
                /\ pending' = pending
        /\ UNCHANGED <<jobs, run, cache, connections, external, now, tokens, reports, libVars>>

\* POST /api/youtube/disconnect: after the connection rows were listed, the
\* connections whose names were given (all when no name is given) and then
\* the cached summary are deleted; neither delete result is looked at.
\* A channel's name is its id here.
Disconnect ==
    \E u \in Users, authed \in BOOLEAN, names \in DisconnectRequests,
       listOk \in BOOLEAN, deleteOk \in BOOLEAN, cacheDeleteOk \in BOOLEAN :
        LET toDelete == IF names = {} THEN connections[u]
                        ELSE connections[u] \cap names
        IN  /\ ~authed => listOk
            /\ (~authed \/ ~listOk) => (deleteOk /\ cacheDeleteOk)
            /\ (names # {} /\ toDelete = {}) => deleteOk
            /\ Answers(<<listOk, deleteOk, cacheDeleteOk>>)
            /\ IF ~authed THEN RequestError("request") /\ UNCHANGED <<connections, cache>>
               ELSE IF ~listOk THEN RequestError("store") /\ UNCHANGED <<connections, cache>>
               ELSE /\ connections' =
                        IF deleteOk
                        THEN [connections EXCEPT ![u] = @ \ toDelete]
                        ELSE connections
                    /\ cache' = IF cacheDeleteOk THEN [cache EXCEPT ![u] = NoRow]
                                ELSE cache
                    /\ response' = [kind |-> "disconnect", ok |-> TRUE, user |-> u,
                                    matched |-> toDelete]
                    /\ pending' = pending
            /\ UNCHANGED <<jobs, run, external, now, tokens, reports, libVars>>

\* ------------------------------------------------- runYouTubeRefreshJob
Patched(j, payload, ok) ==
    IF ok THEN updateYouTubeRefreshJob(jobs, jobs[j].userId, j, payload) ELSE jobs

\* The first update, before the try block.
RunStart ==
    \E j \in JobIds, ok \in BOOLEAN :
        /\ run[j].pc = "start"
        /\ Answers(<<ok>>)
        /\ jobs' = Patched(j, [status |-> "running", startedAt |-> now,
                               errorMessage |-> ""], ok)
        /\ run' = [run EXCEPT ![j].pc = "load"]
        /\ response' = NoResponse
        /\ UNCHANGED <<cache, connections, pending, external, now, tokens, reports, libVars>>

\* loadSupabaseYouTubeConnections; a failed read throws into the catch.
RunLoad ==
    \E j \in JobIds, ok \in BOOLEAN :
        /\ run[j].pc = "load"
        /\ Answers(<<ok>>)
        /\ run' = IF ok
                  THEN [run EXCEPT ![j].pc = "total",
                                   ![j].conns = connections[jobs[j].userId]]
                  ELSE [run EXCEPT ![j].pc = "catch", ![j].loadFailed = TRUE]
        /\ response' = NoResponse
        /\ UNCHANGED <<jobs, cache, connections, pending, external, now, tokens, reports, libVars>>

\* The update that records channels_total.
RunTotal ==
    \E j \in JobIds, ok \in BOOLEAN :
        /\ run[j].pc = "total"
        /\ Answers(<<ok>>)
        /\ jobs' = Patched(j, [channelsTotal |-> Cardinality(run[j].conns),
                               channelsProcessed |-> 0], ok)
        /\ run' = [run EXCEPT ![j].pc = IF run[j].conns = {} THEN "cache" ELSE "build"]
        /\ response' = NoResponse
        /\ UNCHANGED <<cache, connections, pending, external, now, tokens, reports, libVars>>

\* buildLiveYouTubeSummary over the loaded connections.
RunBuild ==
    \E j \in JobIds :
        /\ run[j].pc = "build"
        /\ run' = [run EXCEPT
                     ![j].pc = IF buildLiveYouTubeSummary(run[j].conns, external).threw
                               THEN "catch" ELSE "cache"]
        /\ response' = NoResponse
        /\ UNCHANGED <<jobs, cache, connections, pending, external, faults, now, tokens, reports, libVars>>

SummaryOf(j) ==
    IF run[j].conns = {} THEN buildEmptyYouTubeSummary
    ELSE buildLiveYouTubeSummary(run[j].conns, external).summary

\* upsertCachedYouTubeSummary; its result is not looked at.
RunCache ==
    \E j \in JobIds, ok \in BOOLEAN :
        /\ run[j].pc = "cache"
        /\ Answers(<<ok>>)
        /\ cache' = IF ok
                    THEN [cache EXCEPT ![jobs[j].userId] =
                            [present |-> TRUE, summary |-> SummaryOf(j),
                             generatedAt |-> now, refreshJobId |-> j]]
                    ELSE cache
        /\ run' = [run EXCEPT ![j].pc = "final", ![j].cacheFailed = ~ok]
        /\ response' = NoResponse
        /\ UNCHANGED <<jobs, connections, pending, external, now, tokens, reports, libVars>>

\* The last update of the try block.
RunFinal ==
    \E j \in JobIds, ok \in BOOLEAN :
        /\ run[j].pc = "final"
        /\ Answers(<<ok>>)
        /\ jobs' = Patched(j,
                     IF run[j].conns = {}
                     THEN [status |-> "succeeded", channelsProcessed |-> 0,
                           finishedAt |-> now, meta |-> "message"]
                     ELSE [status |-> "succeeded",
                           channelsProcessed |-> Cardinality(run[j].conns),
                           finishedAt |-> now, errorMessage |-> "", meta |-> "counts"],
                     ok)
        /\ run' = [run EXCEPT ![j].pc = "done"]
        /\ response' = NoResponse
        /\ UNCHANGED <<cache, connections, pending, external, now, tokens, reports, libVars>>

\* The update of the catch block.
RunCatchInvalidating ==
    \E j \in JobIds, ok \in BOOLEAN :
        /\ run[j].pc = "catch"
        /\ Answers(<<ok>>)
        /\ jobs' = Patched(j, [status |-> "failed", finishedAt |-> now,
                               errorMessage |-> IF run[j].loadFailed THEN LoadErrorMessage
                                                ELSE "YouTube refresh failed."], ok)
        /\ run' = [run EXCEPT ![j].pc = "done"]
        /\ response' = NoResponse
        /\ cache' = [cache EXCEPT ![jobs[j].userId] = NoRow]
        /\ UNCHANGED <<connections, pending, external, now, tokens, reports, libVars>>

RunCatch ==
    \E j \in JobIds, ok \in BOOLEAN :
        /\ run[j].pc = "catch"
        /\ Answers(<<ok>>)
        /\ jobs' = Patched(j, [status |-> "failed", finishedAt |-> now,
                               errorMessage |-> IF run[j].loadFailed THEN LoadErrorMessage
                                                ELSE "YouTube refresh failed."], ok)
        /\ run' = [run EXCEPT ![j].pc = "done"]
        /\ response' = NoResponse
        /\ UNCHANGED <<cache, connections, pending, external, now, tokens, reports, libVars>>

Tick ==
    /\ now < MaxTime
    /\ now' = now + 1
    /\ response' = NoResponse
    /\ UNCHANGED <<jobs, run, cache, connections, pending, external, faults,
                   tokens, reports, libVars>>

Next ==
    \/ PostRefresh
    \/ GetSummary
    \/ ScheduledSweep
    \/ EnqueueInsert
    \/ GetRefreshStatus
    \/ Disconnect
    \/ RunStart
    \/ RunLoad
    \/ RunTotal
    \/ RunBuild
    \/ RunCache
    \/ RunFinal
    \/ RunCatch
    \/ Tick

Spec == Init /\ [][Next]_vars

\* ------------------------------------------------------------ two users
\* The same job table, enqueue path and job execution with two users that
\* each have connections: the requests that look jobs up by user.
Viewers == {"u1", "u2"}

\* POST /api/youtube/refresh of a viewer.
ViewerPostRefresh ==
    \E u \in Viewers, lookupOk \in BOOLEAN :
        /\ Answers(<<lookupOk>>)
        /\ EnqueueLookup(u, "manual", TRUE, 0, lookupOk, ManualCaller)
        /\ UNCHANGED <<jobs, run, cache, connections, external, now, tokens, reports, libVars>>

\* runScheduledYouTubeAutoRefresh, one iteration of its loop, for a viewer.
ViewerSweep ==
    \E u \in Viewers, cacheOk \in BOOLEAN, lookupOk \in BOOLEAN :
        LET generatedAt == CachedGeneratedAt(u, cacheOk)
            caller == Caller("sweep", u, IF cacheOk THEN cache[u] ELSE NoRow, TRUE)
        IN  /\ connections[u] # {}
            /\ ~WouldQueueAuto(TRUE, generatedAt) => lookupOk
            /\ Answers(<<cacheOk, lookupOk>>)
            /\ maybeQueueAutoYouTubeRefresh(u, TRUE, generatedAt, lookupOk, caller)
            /\ UNCHANGED <<jobs, run, cache, connections, external, now, tokens, reports, libVars>>

\* GET /api/youtube/refresh/:jobId of a viewer, for the id of a row of the
\* table or an unknown one: the row is read with user_id=eq.viewer.
ViewerGetRefreshStatus ==
    \E u \in Viewers, jobId \in 1..(Len(jobs) + 1), readOk \in BOOLEAN :
        /\ Answers(<<readOk>>)
        /\ response' =
              IF ~readOk
              THEN [kind |-> "http_error", level |-> "store", user |-> u,
                    jobId |-> jobId,
                    error |-> "youtube_refresh_job_lookup_failed"]
              ELSE IF jobId \notin JobIds \/ jobs[jobId].userId # u
              THEN [kind |-> "http_error", level |-> "request", user |-> u,
                    jobId |-> jobId, error |-> "youtube_refresh_job_not_found"]
              ELSE [kind |-> "status", user |-> u, jobId |-> jobId]
        /\ UNCHANGED <<jobs, run, cache, connections, pending, external, now, tokens,
                       reports, libVars>>

InitViewers ==
    /\ jobs = <<>>
    /\ run = <<>>
    /\ cache = [u \in Viewers |-> NoRow]
    /\ connections = [u \in Viewers |-> Channels]
    /\ pending = <<>>
    /\ response = NoResponse
    /\ external = [c \in Channels |-> "ok"]
    /\ faults = 0
    /\ now = 1
    /\ tokens = IdleTokens(NoConnection)
    /\ reports = IdleReports
    /\ IdleLib

NextViewers ==
    \/ ViewerPostRefresh
    \/ ViewerSweep
    \/ ViewerGetRefreshStatus
    \/ EnqueueInsert
    \/ RunStart
    \/ RunLoad
    \/ RunTotal
    \/ RunBuild
    \/ RunCache
    \/ RunFinal
    \/ RunCatch
    \/ Tick

SpecViewers == InitViewers /\ [][NextViewers]_vars

\* =============================================== ensureValidAccessToken
\* One connection, and up to MaxCalls calls of ensureValidAccessToken on it
\* that may interleave at their awaits: the refresh-token exchange and the
\* persistence callback.  The clock is in milliseconds here.
MaxCalls == 2
MaxTokenTicks == 1

TOKEN_REFRESH_SKEW_MS == 60000
TokenEpoch == 100000

\* expiresAt of the stored connection: unknown, past, 10 s ahead, exactly
\* 60 s ahead, just beyond 60 s, far ahead.
ExpiryCases ==
    {0, TokenEpoch - 50000, TokenEpoch + 10000, TokenEpoch + 60000,
     TokenEpoch + 60001, TokenEpoch + 3600000}

\* What the token endpoint does: an error response, a response without
\* access_token, a network exception, a token with expires_in 3600, a
\* token without expires_in.
ExchangeOutcomes == {"error", "no_token", "throw", "ok", "ok_no_expiry"}
TokenNames == <<"t1", "t2", "t3", "t4">>

shouldRefreshWithoutSkew(connection, t) ==
    \/ connection.accessToken = ""
    \/ (connection.expiresAt # 0 /\ t >= connection.expiresAt)

shouldRefresh(connection, t) ==
    \/ connection.accessToken = ""
    \/ (connection.expiresAt # 0 /\ t >= connection.expiresAt - TOKEN_REFRESH_SKEW_MS)

\* null: no refresh token, or the exchange failed.
NotRefreshed == [threw |-> FALSE, accessToken |-> "", expiresAt |-> 0]

refreshYouTubeAccessTokenUncaught(refreshToken, outcome, token, t) ==
    IF refreshToken = "" THEN NotRefreshed
    ELSE IF outcome = "throw" THEN [NotRefreshed EXCEPT !.threw = TRUE]
    ELSE IF outcome \in {"error", "no_token"} THEN NotRefreshed
    ELSE [threw |-> FALSE, accessToken |-> token,
          expiresAt |-> IF outcome = "ok" THEN t + 3600 * 1000 ELSE 0]

refreshYouTubeAccessToken(refreshToken, outcome, token, t) ==
    IF refreshToken = "" THEN NotRefreshed
    ELSE IF outcome \in {"error", "no_token", "throw"} THEN NotRefreshed
    ELSE [threw |-> FALSE, accessToken |-> token,
          expiresAt |-> IF outcome = "ok" THEN t + 3600 * 1000 ELSE 0]

updatedConnectionTokenOnly(connection, refreshed) ==
    [connection EXCEPT !.accessToken = refreshed.accessToken]

updatedConnection(connection, refreshed) ==
    [connection EXCEPT !.accessToken = refreshed.accessToken,
                       !.expiresAt = refreshed.expiresAt]

\* The write of either persistence callback: one PATCH carrying
\* access_token, refresh_token and token_expires_at, or the replacement of
\* the session's connection object.
updateYouTubeConnectionTokenRowTokenOnly(stored, updated) ==
    [stored EXCEPT !.accessToken = updated.accessToken,
                   !.refreshToken = updated.refreshToken]

updateYouTubeConnectionTokenRow(stored, updated) ==
    [stored EXCEPT !.accessToken = updated.accessToken,
                   !.refreshToken = updated.refreshToken,
                   !.expiresAt = updated.expiresAt]

CallIds == 1..Len(tokens.calls)

NewCall(connection, t) ==
    [pc |-> "refreshing", connection |-> connection, calledAt |-> t,
     exchanged |-> FALSE, outcome |-> "none", refreshed |-> NotRefreshed,
     callbacks |-> 0, passed |-> connection,
     result |-> [accessToken |-> "", connection |-> connection]]

\* ensureValidAccessToken up to its first await, on the connection as
\* stored now.
TokenCall ==
    /\ Len(tokens.calls) < MaxCalls
    /\ LET c == tokens.stored
           call == IF shouldRefresh(c, now) THEN NewCall(c, now)
                   ELSE [NewCall(c, now) EXCEPT
                            !.pc = "returned",
                            !.result = [accessToken |-> c.accessToken, connection |-> c]]
       IN  tokens' = [tokens EXCEPT !.calls = Append(@, call)]
    /\ UNCHANGED <<refreshVars, now, reports, libVars>>

\* refreshYouTubeAccessToken answers; on null the existing token is returned.
TokenExchange ==
    \E i \in CallIds, outcome \in ExchangeOutcomes :
        LET c == tokens.calls[i]
            r == refreshYouTubeAccessToken(c.connection.refreshToken, outcome,
                                           TokenNames[tokens.issued + 1], now)
            seen == [c EXCEPT !.exchanged = TRUE, !.refreshed = r,
                              !.outcome = IF c.connection.refreshToken = ""
                                          THEN "none" ELSE outcome]
        IN  /\ c.pc = "refreshing"
            /\ tokens' =
                 [tokens EXCEPT
                    !.issued = IF r.accessToken # "" THEN @ + 1 ELSE @,
                    !.calls[i] =
                        IF r.threw THEN [seen EXCEPT !.pc = "threw"]
                        ELSE IF r.accessToken = ""
                        THEN [seen EXCEPT
                                !.pc = "returned",
                                !.result = [accessToken |-> c.connection.accessToken,
                                            connection |-> c.connection]]
                        ELSE [seen EXCEPT !.pc = "persisting"]]
            /\ UNCHANGED <<refreshVars, now, reports, libVars>>

\* persistConnection(updatedConnection), then the return; writeOk: whether
\* the callback's write reached the store.
TokenPersist ==
    \E i \in CallIds, writeOk \in BOOLEAN :
        LET c == tokens.calls[i]
            u == updatedConnection(c.connection, c.refreshed)
        IN  /\ c.pc = "persisting"
            /\ tokens' =
                 [tokens EXCEPT
                    !.stored = IF writeOk THEN updateYouTubeConnectionTokenRow(@, u)
                               ELSE @,
                    !.writes = IF writeOk THEN Append(@, i) ELSE @,
                    !.calls[i] =
                        [c EXCEPT !.pc = "returned",
                                  !.callbacks = @ + 1,
                                  !.passed = u,
                                  !.result = [accessToken |-> c.refreshed.accessToken,
                                              connection |-> u]]]
            /\ UNCHANGED <<refreshVars, now, reports, libVars>>

TokenTick ==
    /\ now < TokenEpoch + MaxTokenTicks * 10000
    /\ now' = now + 10000
    /\ UNCHANGED <<refreshVars, tokens, reports, libVars>>

InitToken ==
    /\ jobs = <<>>
    /\ run = <<>>
    /\ cache = [u \in Users |-> NoRow]
    /\ connections = [u \in Users |-> Channels]
    /\ pending = <<>>
    /\ response = NoResponse
    /\ external = [c \in Channels |-> "ok"]
    /\ faults = 0
    /\ now = TokenEpoch
    /\ reports = IdleReports
    /\ IdleLib
    /\ tokens \in {IdleTokens([accessToken |-> a, expiresAt |-> e, refreshToken |-> r]) :
                     a \in {"", "t0"}, e \in ExpiryCases, r \in {"", "r0"}}

NextToken ==
    \/ TokenCall
    \/ TokenExchange
    \/ TokenPersist
    \/ TokenTick

SpecToken == InitToken /\ [][NextToken]_vars

\* =============================================== getReportingDataForJob
\* One reporting job: the exports the API lists for it (published one at a
\* time, the oldest expiring), the session's parsed-report cache for the
\* job, and calls of getReportingDataForJob.  An export's CSV is the number
\* of data rows the parser keeps of it.
MaxExports == 5
REPORT_SCAN_LIMIT == 12
RowCases == {0, 5}

RECURSIVE SortByTimeDesc(_)
SortByTimeDesc(s) ==
    IF s = <<>> THEN <<>>
    ELSE LET i == CHOOSE k \in 1..Len(s) :
                     \A l \in 1..Len(s) :
                        \/ s[l].time < s[k].time
                        \/ (s[l].time = s[k].time /\ l >= k)
         IN  <<s[i]>> \o SortByTimeDesc(RemoveAt(s, i))

\* The listing fits one page: a request the API answers with an error
\* yields no batch, so the listing is empty.
listReportingReports(exports, listOk) == IF listOk THEN exports ELSE <<>>

\* [...reports].sort by createTime || startTime, descending.
orderedReports(exports) == SortByTimeDesc(exports)

\* The data rows the parser keeps of the downloaded content: a download the
\* server answers with an error yields '', which parses to no rows.
downloadReportingReport(report, failed) ==
    IF report.id \in failed THEN 0 ELSE report.rows

parsedReport(report, failed) ==
    [reportId |-> report.id, data |-> downloadReportingReport(report, failed)]

\* The scan of the REPORT_SCAN_LIMIT most recent exports: the first whose
\* download parses to data rows, else the first of them all.
scanReports(ordered, failed) ==
    LET scanned == SubSeq(ordered, 1,
                          IF Len(ordered) < REPORT_SCAN_LIMIT THEN Len(ordered)
                          ELSE REPORT_SCAN_LIMIT)
        withRows == {i \in 1..Len(scanned) :
                        downloadReportingReport(scanned[i], failed) > 0}
        first == CHOOSE i \in withRows : \A k \in withRows : i <= k
    IN  IF withRows # {} THEN parsedReport(scanned[first], failed)
        ELSE parsedReport(scanned[1], failed)

\* The result (NoReport: null) and the cache the call leaves.
getReportingDataForJob(exports, cached, listOk, failed) ==
    LET ordered == orderedReports(listReportingReports(exports, listOk))
    IN  IF ordered = <<>> THEN [result |-> NoReport, cached |-> cached]
        ELSE IF cached.reportId # 0
                /\ \E i \in 1..Len(ordered) : ordered[i].id = cached.reportId
        THEN [result |-> cached, cached |-> cached]
        ELSE [result |-> scanReports(ordered, failed),
              cached |-> scanReports(ordered, failed)]

\* The API lists one more export, newer than all it listed so far.
ReportsPublish ==
    \E rows \in RowCases :
        /\ reports.published < MaxExports
        /\ reports' = [reports EXCEPT
                         !.published = @ + 1,
                         !.exports = Append(@, [id |-> reports.published + 1,
                                                time |-> reports.published + 1,
                                                rows |-> rows]),
                         !.returned = FALSE]
        /\ UNCHANGED <<refreshVars, now, tokens, libVars>>

\* The API stops listing the oldest export.
ReportsExpire ==
    /\ reports.exports # <<>>
    /\ reports' = [reports EXCEPT !.exports = Tail(@), !.returned = FALSE]
    /\ UNCHANGED <<refreshVars, now, tokens, libVars>>

\* One call; the listing request and each download either succeed or are
\* answered with an error.
ReportsCall ==
    \E listOk \in BOOLEAN,
       failed \in SUBSET {reports.exports[i].id : i \in 1..Len(reports.exports)} :
        /\ ~listOk => failed = {}
        /\ LET r == getReportingDataForJob(reports.exports, reports.cached,
                                           listOk, failed)
           IN  reports' = [reports EXCEPT !.cached = r.cached,
                                          !.result = r.result,
                                          !.returned = TRUE,
                                          !.before = reports.cached,
                                          !.listOk = listOk,
                                          !.failed = failed]
    /\ UNCHANGED <<refreshVars, now, tokens, libVars>>

InitReports ==
    /\ jobs = <<>>
    /\ run = <<>>
    /\ cache = [u \in Users |-> NoRow]
    /\ connections = [u \in Users |-> Channels]
    /\ pending = <<>>
    /\ response = NoResponse
    /\ external = [c \in Channels |-> "ok"]
    /\ faults = 0
    /\ now = 1
    /\ tokens = IdleTokens(NoConnection)
    /\ reports = IdleReports
    /\ IdleLib

NextReports ==
    \/ ReportsPublish
    \/ ReportsExpire
    \/ ReportsCall

SpecReports == InitReports /\ [][NextReports]_vars

\* The refresh orchestrator, the token store and the report cache at rest.
IdleSystem ==
    /\ jobs = <<>>
    /\ run = <<>>
    /\ cache = [u \in Users |-> NoRow]
    /\ connections = [u \in Users |-> Channels]
    /\ pending = <<>>
    /\ response = NoResponse
    /\ external = [c \in Channels |-> "ok"]
    /\ faults = 0
    /\ now = 1
    /\ tokens = IdleTokens(NoConnection)
    /\ reports = IdleReports

\* ========================================================= parseCsvRows
\* A content is a sequence of characters, a field value likewise; the rows
\* parsed are sequences of field values.
MaxCells == 3
Comma == ","
Quote == "\""
LF == "\n"
CR == "\r"
Space == " "
NoChar == ""

\* value.trim().length > 0
TrimmedNonEmpty(value) ==
    \E i \in 1..Len(value) : value[i] \notin {Space, LF, CR}

\* row.push(current); the row is kept if one of its values is not blank.
pushRow(st) ==
    LET row == Append(st.row, st.current)
    IN  [st EXCEPT !.rows = IF \E k \in 1..Len(row) : TrimmedNonEmpty(row[k])
                            THEN Append(@, row) ELSE @,
                   !.row = <<>>,
                   !.current = <<>>]

\* One round of the loop on the character char, followed in the content by
\* next (NoChar: none).  skip: the round also consumed next.
csvStepNoEscape(st, char, next) ==
    IF char = Quote
    THEN [st |-> [st EXCEPT !.inQuotes = ~@], skip |-> FALSE]
    ELSE IF char = Comma /\ ~st.inQuotes
    THEN [st |-> [st EXCEPT !.row = Append(@, st.current), !.current = <<>>],
          skip |-> FALSE]
    ELSE IF char \in {LF, CR} /\ ~st.inQuotes
    THEN [st |-> pushRow(st), skip |-> (char = CR /\ next = LF)]
    ELSE [st |-> [st EXCEPT !.current = Append(@, char)], skip |-> FALSE]

csvStep(st, char, next) ==
    IF char = Quote
    THEN IF st.inQuotes /\ next = Quote
         THEN [st |-> [st EXCEPT !.current = Append(@, Quote)], skip |-> TRUE]
         ELSE [st |-> [st EXCEPT !.inQuotes = ~@], skip |-> FALSE]
    ELSE IF char = Comma /\ ~st.inQuotes
    THEN [st |-> [st EXCEPT !.row = Append(@, st.current), !.current = <<>>],
          skip |-> FALSE]
    ELSE IF char \in {LF, CR} /\ ~st.inQuotes
    THEN [st |-> pushRow(st), skip |-> (char = CR /\ next = LF)]
    ELSE [st |-> [st EXCEPT !.current = Append(@, char)], skip |-> FALSE]

\* The loop from position i on.
RECURSIVE csvLoop(_, _, _)
csvLoop(content, i, st) ==
    IF i > Len(content) THEN st
    ELSE LET r == csvStep(st, content[i],
                          IF i < Len(content) THEN content[i + 1] ELSE NoChar)
         IN  csvLoop(content, IF r.skip THEN i + 2 ELSE i + 1, r.st)

parseCsvRows(content) ==
    IF content = <<>> THEN <<>>
    ELSE LET st == csvLoop(content, 1, [rows |-> <<>>, row |-> <<>>,
                                        current |-> <<>>, inQuotes |-> FALSE])
         IN  IF st.current # <<>> \/ st.row # <<>> THEN pushRow(st).rows
             ELSE st.rows

\* The contents parsed: tables of at most MaxCells fields in all, written as
\* CSV with one of the three line endings, the fields quoted where needed
\* or all of them, with or without a final line ending.
FieldCases ==
    { <<>>, <<"a">>, <<Space>>, <<Comma>>, <<Quote>>, <<LF>>, <<CR, LF>>,
      <<"a", Comma, "b", Quote, "c">> }
LineEndings == { <<LF>>, <<CR, LF>>, <<CR>> }
CellCases == UNION {[1..n -> FieldCases] : n \in 1..MaxCells}

\* The fields cells as a table whose rows end after the positions in breaks.
RECURSIVE splitRows(_, _, _)
splitRows(cells, breaks, from) ==
    LET ends == {i \in from..Len(cells) : i \in breaks \/ i = Len(cells)}
        end == CHOOSE i \in ends : \A k \in ends : i <= k
    IN  IF from > Len(cells) THEN <<>>
        ELSE <<SubSeq(cells, from, end)>> \o splitRows(cells, breaks, end + 1)

RECURSIVE doubleQuotes(_)
doubleQuotes(value) ==
    IF value = <<>> THEN <<>>
    ELSE (IF Head(value) = Quote THEN <<Quote, Quote>> ELSE <<Head(value)>>)
         \o doubleQuotes(Tail(value))

writeField(value, quoteAll) ==
    IF quoteAll \/ \E i \in 1..Len(value) : value[i] \in {Comma, Quote, LF, CR}
    THEN <<Quote>> \o doubleQuotes(value) \o <<Quote>>
    ELSE value

RECURSIVE writeRow(_, _)
writeRow(row, quoteAll) ==
    IF Len(row) = 1 THEN writeField(row[1], quoteAll)
    ELSE writeField(Head(row), quoteAll) \o <<Comma>> \o writeRow(Tail(row), quoteAll)

RECURSIVE writeTable(_, _, _, _)
writeTable(table, ending, quoteAll, final) ==
    IF Len(table) = 1
    THEN writeRow(table[1], quoteAll) \o (IF final THEN ending ELSE <<>>)
    ELSE writeRow(Head(table), quoteAll) \o ending
         \o writeTable(Tail(table), ending, quoteAll, final)

CsvParse ==
    /\ ~csv.parsed
    /\ csv' = [csv EXCEPT !.parsed = TRUE, !.rows = parseCsvRows(csv.content)]
    /\ UNCHANGED <<refreshVars, now, tokens, reports, series, percent, poller, reportingJobs, audience, aggVars>>

InitCsv ==
    /\ IdleSystem
    /\ IdleAgg
    /\ series = IdleSeries
    /\ percent = IdlePercent
    /\ poller = IdlePoller
    /\ reportingJobs = IdleReporting
    /\ audience = IdleAudience
    /\ \E cells \in CellCases, ending \in LineEndings, quoteAll, final \in BOOLEAN :
          \E breaks \in SUBSET (1..(Len(cells) - 1)) :
             LET table == splitRows(cells, breaks, 1)
             IN  csv = [table |-> table,
                        content |-> writeTable(table, ending, quoteAll, final),
                        parsed |-> FALSE, rows |-> <<>>]

NextCsv == CsvParse

SpecCsv == InitCsv /\ [][NextCsv]_vars

\* ============================================= merged timeSeries
\* A series is a sequence of points; the counts of a point are naturals.
\* The snapshot series groups videos by date, so each of its points counts
\* at least one post.
MaxPoints == 2
ZeroPoint == [views |-> 0, engagements |-> 0, posts |-> 0]
PointCases ==
    { ZeroPoint, [ZeroPoint EXCEPT !.views = 3],
      [ZeroPoint EXCEPT !.engagements = 2], [ZeroPoint EXCEPT !.posts = 1] }
SnapshotPointCases ==
    { [ZeroPoint EXCEPT !.posts = 1],
      [views |-> 7, engagements |-> 1, posts |-> 2] }
SeriesOf(points) == UNION {[1..n -> points] : n \in 0..MaxPoints}

hasNonZeroSeries(s) ==
    \E i \in 1..Len(s) :
        s[i].views > 0 \/ s[i].engagements > 0 \/ s[i].posts > 0

resolvedTimeSeriesFirstNonEmpty(analytics, reporting, fallback) ==
    IF Len(analytics) > 0 THEN analytics
    ELSE IF Len(reporting) > 0 THEN reporting
    ELSE fallback

resolvedTimeSeries(analytics, reporting, fallback) ==
    IF hasNonZeroSeries(analytics) THEN analytics
    ELSE IF hasNonZeroSeries(reporting) THEN reporting
    ELSE IF hasNonZeroSeries(fallback) THEN fallback
    ELSE IF Len(analytics) > 0 THEN analytics
    ELSE IF Len(reporting) > 0 THEN reporting
    ELSE fallback

SeriesMerge ==
    /\ ~series.done
    /\ series' = [series EXCEPT
                     !.done = TRUE,
                     !.merged = resolvedTimeSeries(series.analytics,
                                                   series.reporting,
                                                   series.snapshot)]
    /\ UNCHANGED <<refreshVars, now, tokens, reports, csv, percent, poller, reportingJobs, audience, aggVars>>

InitSeries ==
    /\ IdleSystem
    /\ IdleAgg
    /\ csv = IdleCsv
    /\ percent = IdlePercent
    /\ poller = IdlePoller
    /\ reportingJobs = IdleReporting
    /\ audience = IdleAudience
    /\ \E a \in SeriesOf(PointCases), r \in SeriesOf(PointCases),
          f \in SeriesOf(SnapshotPointCases) :
          series = [analytics |-> a, reporting |-> r, snapshot |-> f,
                    merged |-> <<>>, done |-> FALSE]

NextSeries == SeriesMerge

SpecSeries == InitSeries /\ [][NextSeries]_vars

\* ===================================================== buildPercentList
\* A magnitude map is the sequence of its entries in insertion order, each a
\* label and a magnitude; the magnitudes are whole numbers here and the
\* arithmetic is exact.
MaxLabels == 3
MaxMagnitude == 4
LabelNames == <<"l1", "l2", "l3", "l4">>
MapCases ==
    UNION { {[i \in 1..n |-> [label |-> LabelNames[i], value |-> m[i]]] :
                m \in [1..n -> 0..MaxMagnitude]} : n \in 1..MaxLabels }

RECURSIVE SumValues(_)
SumValues(entries) ==
    IF entries = <<>> THEN 0 ELSE Head(entries).value + SumValues(Tail(entries))

\* Math.round of the quotient a / b of naturals, b > 0: half rounds up.
MathRound(a, b) == (2 * a + b) \div (2 * b)

\* sort((a, b) => b.value - a.value): descending, ties in their order.
RECURSIVE SortByValueDesc(_)
SortByValueDesc(entries) ==
    IF entries = <<>> THEN <<>>
    ELSE LET i == CHOOSE k \in 1..Len(entries) :
                     \A l \in 1..Len(entries) :
                        \/ entries[l].value < entries[k].value
                        \/ (entries[l].value = entries[k].value /\ l >= k)
         IN  <<entries[i]>> \o SortByValueDesc(RemoveAt(entries, i))

\* buildPercentList of buildAnalyticsSummary.
buildPercentListAnalytics(map) ==
    LET total == SumValues(map)
    IN  IF total = 0 THEN <<>>
        ELSE SortByValueDesc([i \in 1..Len(map) |->
                 [label |-> map[i].label,
                  value |-> MathRound(map[i].value * 100, total)]])

\* buildPercentList of buildReportingSummary.
buildPercentListReporting(map) ==
    LET total == SumValues(map)
    IN  SortByValueDesc([i \in 1..Len(map) |->
            [label |-> map[i].label,
             value |-> IF total # 0 THEN MathRound(map[i].value * 100, total)
                       ELSE MathRound(map[i].value, 1)]])

PercentBuild ==
    /\ ~percent.done
    /\ percent' = [percent EXCEPT
                      !.done = TRUE,
                      !.analytics = buildPercentListAnalytics(percent.map),
                      !.reporting = buildPercentListReporting(percent.map)]
    /\ UNCHANGED <<refreshVars, now, tokens, reports, csv, series, poller, reportingJobs, audience, aggVars>>

InitPercent ==
    /\ IdleSystem
    /\ IdleAgg
    /\ csv = IdleCsv
    /\ series = IdleSeries
    /\ poller = IdlePoller
    /\ reportingJobs = IdleReporting
    /\ audience = IdleAudience
    /\ \E map \in MapCases :
          percent = [map |-> map, analytics |-> <<>>, reporting |-> <<>>,
                     done |-> FALSE]

NextPercent == PercentBuild

SpecPercent == InitPercent /\ [][NextPercent]_vars

\* ================================================ waitForYouTubeRefresh
\* One call of the client's poller on a job whose status the server moves
\* on independently.  Time is counted in poll intervals since the call
\* started; a status request takes any time, the sleep one interval.
MaxPollClock == 5
POLL_TIMEOUT_MS == 3
POLL_INTERVAL_MS == 1
PollStatuses == {"queued", "running", "succeeded", "failed"}

\* while (Date.now() - startedAt <= timeoutMs)
PollCheck ==
    /\ poller.pc = "check"
    /\ poller' = IF poller.elapsed <= POLL_TIMEOUT_MS
                 THEN [poller EXCEPT !.pc = "fetch"]
                 ELSE [poller EXCEPT !.pc = "rejected", !.error = "timeout"]
    /\ UNCHANGED <<refreshVars, now, tokens, reports, csv, series, percent,
                   reportingJobs, audience, aggVars>>

\* Time passes while the status request is in flight.
PollDelay ==
    /\ poller.pc = "fetch"
    /\ poller.elapsed < MaxPollClock
    /\ poller' = [poller EXCEPT !.elapsed = @ + 1]
    /\ UNCHANGED <<refreshVars, now, tokens, reports, csv, series, percent,
                   reportingJobs, audience, aggVars>>

\* getYouTubeRefreshStatus answers: it throws when the response is not ok
\* or has no body; else the status goes to onProgress and, if terminal, is
\* returned.
PollAnswer ==
    \E ok \in BOOLEAN :
        /\ poller.pc = "fetch"
        /\ poller' =
              IF ~ok
              THEN [poller EXCEPT !.pc = "rejected", !.error = "load"]
              ELSE [poller EXCEPT
                      !.reads = Append(@, poller.job),
                      !.progress = Append(@, poller.job),
                      !.pc = IF poller.job \in {"succeeded", "failed"}
                             THEN "resolved" ELSE "sleep",
                      !.result = IF poller.job \in {"succeeded", "failed"}
                                 THEN poller.job ELSE @]
        /\ UNCHANGED <<refreshVars, now, tokens, reports, csv, series, percent,
                   reportingJobs, audience, aggVars>>

\* window.setTimeout(resolve, intervalMs)
PollSleep ==
    /\ poller.pc = "sleep"
    /\ poller' = [poller EXCEPT
                     !.pc = "check",
                     !.elapsed = IF @ + POLL_INTERVAL_MS > MaxPollClock
                                 THEN MaxPollClock ELSE @ + POLL_INTERVAL_MS]
    /\ UNCHANGED <<refreshVars, now, tokens, reports, csv, series, percent,
                   reportingJobs, audience, aggVars>>

\* The server moves the job on: queued, running, then succeeded or failed.
PollJobAdvance ==
    \E next \in PollStatuses :
        /\ poller.pc \in {"check", "fetch", "sleep"}
        /\ \/ poller.job = "queued" /\ next = "running"
           \/ poller.job = "running" /\ next \in {"succeeded", "failed"}
        /\ poller' = [poller EXCEPT !.job = next]
        /\ UNCHANGED <<refreshVars, now, tokens, reports, csv, series, percent,
                   reportingJobs, audience, aggVars>>

InitPoller ==
    /\ IdleSystem
    /\ IdleAgg
    /\ csv = IdleCsv
    /\ series = IdleSeries
    /\ percent = IdlePercent
    /\ reportingJobs = IdleReporting
    /\ audience = IdleAudience
    /\ \E job \in PollStatuses :
          poller = [IdlePoller EXCEPT !.pc = "check", !.job = job]

NextPoller ==
    \/ PollCheck
    \/ PollDelay
    \/ PollAnswer
    \/ PollSleep
    \/ PollJobAdvance

SpecPoller == InitPoller /\ [][NextPoller]_vars

\* The event loop runs the call on, every request is answered and every
\* timer fires.
SpecPollerLive ==
    SpecPoller /\ WF_vars(PollCheck) /\ WF_vars(PollAnswer) /\ WF_vars(PollSleep)

\* ================================================== ensureReportingJobs
\* One channel of one session: the jobsByChannel object the session store
\* holds for it (stored: there is one; recorded: the job id per report key,
\* 0 for none), the job list of the external API, and the calls of
\* ensureReportingJobs, which interleave at their awaits.  A report key's
\* resolved type id is the key; a job's name is "fixated" (the name the
\* code gives) or "other".
MaxEnsureCalls == 2
ExternalJobCases == {"none", "named", "other"}

\* The job list the external API holds at first, given for each key whether
\* it holds a job of that type and under which name.
RECURSIVE InitialJobs(_, _)
InitialJobs(cases, i) ==
    IF i > Len(ReportKeys) THEN <<>>
    ELSE (IF cases[ReportKeys[i]] = "none" THEN <<>>
          ELSE <<[id |-> i, reportTypeId |-> ReportKeys[i],
                  name |-> IF cases[ReportKeys[i]] = "named" THEN "fixated"
                           ELSE "other"]>>)
         \o InitialJobs(cases, i + 1)

\* The jobsByChannel object a call works on: the stored one, or its own.
JobsByChannel(c) == IF c.shared THEN reportingJobs.recorded ELSE c.local

\* jobsList.find by type and name, else by type alone; 0: no match.
MatchedJob(list, key) ==
    LET named == {i \in 1..Len(list) :
                     list[i].reportTypeId = key /\ list[i].name = "fixated"}
        typed == {i \in 1..Len(list) : list[i].reportTypeId = key}
    IN  IF named # {} THEN list[CHOOSE i \in named : \A k \in named : i <= k].id
        ELSE IF typed # {} THEN list[CHOOSE i \in typed : \A k \in typed : i <= k].id
        ELSE 0

\* loadSession and fetchReportingReportTypes: typesOk, the report types
\* resolve (else every reportTypeId is '').
EnsureBegin ==
    \E typesOk \in BOOLEAN :
        /\ Len(reportingJobs.calls) < MaxEnsureCalls
        /\ reportingJobs' = [reportingJobs EXCEPT !.calls = Append(@,
              [pc |-> "list", typesOk |-> typesOk,
               shared |-> reportingJobs.stored,
               local |-> NoJobs, list |-> <<>>, i |-> 1,
               began |-> reportingJobs.recorded,
               created |-> {}, returned |-> NoJobs])]
        /\ UNCHANGED <<refreshVars, now, tokens, reports, csv, series, percent,
                       poller, audience, aggVars>>

\* listReportingJobs: a request answered with an error yields no batch.
EnsureList ==
    \E c \in 1..Len(reportingJobs.calls), listOk \in BOOLEAN :
        /\ reportingJobs.calls[c].pc = "list"
        /\ reportingJobs' = [reportingJobs EXCEPT
              !.calls[c].pc = "loop",
              !.calls[c].list = IF listOk THEN reportingJobs.jobsList ELSE <<>>]
        /\ UNCHANGED <<refreshVars, now, tokens, reports, csv, series, percent,
                       poller, audience, aggVars>>

\* One round of the loop over the report types, with createReportingJob
\* awaited inside it (createOk: the API creates the job).
EnsureKey ==
    \E c \in 1..Len(reportingJobs.calls), createOk \in BOOLEAN :
        LET call == reportingJobs.calls[c]
            key == ReportKeys[call.i]
            existing == JobsByChannel(call)[key]
            matched == MatchedJob(call.list, key)
            newId == Len(reportingJobs.jobsList) + 1
            creates == call.typesOk /\ existing = 0 /\ matched = 0
            jobId == IF ~call.typesOk \/ existing # 0 THEN existing
                     ELSE IF matched # 0 THEN matched
                     ELSE IF createOk THEN newId
                     ELSE 0
            last == call.i = Len(ReportKeys)
        IN  /\ call.pc = "loop"
            /\ ~creates => createOk
            /\ reportingJobs' = [reportingJobs EXCEPT
                  !.calls[c].i = IF last THEN @ ELSE @ + 1,
                  !.calls[c].pc = IF last THEN "save" ELSE "loop",
                  !.calls[c].local = IF call.shared THEN @
                                     ELSE [@ EXCEPT ![key] = jobId],
                  !.calls[c].created = IF creates /\ createOk THEN @ \cup {key}
                                       ELSE @,
                  !.recorded = IF call.shared THEN [@ EXCEPT ![key] = jobId]
                               ELSE @,
                  !.jobsList = IF creates /\ createOk
                               THEN Append(@, [id |-> newId, reportTypeId |-> key,
                                               name |-> "fixated"])
                               ELSE @,
                  !.createdWhenPresent =
                      IF creates /\ createOk
                         /\ (reportingJobs.recorded[key] # 0
                             \/ \E i \in 1..Len(reportingJobs.jobsList) :
                                   reportingJobs.jobsList[i].reportTypeId = key)
                      THEN @ \cup {key} ELSE @]
            /\ UNCHANGED <<refreshVars, now, tokens, reports, csv, series, percent,
                           poller, audience, aggVars>>

\* session.reporting.jobs[channelId] = jobsByChannel; saveSession; return.
EnsureSave ==
    \E c \in 1..Len(reportingJobs.calls) :
        LET call == reportingJobs.calls[c]
            jobsByChannel == JobsByChannel(call)
        IN  /\ call.pc = "save"
            /\ reportingJobs' = [reportingJobs EXCEPT
                  !.calls[c].pc = "done",
                  !.calls[c].returned = jobsByChannel,
                  !.calls[c].shared = TRUE,
                  !.stored = TRUE,
                  !.recorded = jobsByChannel,
                  !.replaced = @ \cup
                      {k \in KeySet : /\ reportingJobs.recorded[k] # 0
                                       /\ jobsByChannel[k] # reportingJobs.recorded[k]}]
            /\ UNCHANGED <<refreshVars, now, tokens, reports, csv, series, percent,
                           poller, audience, aggVars>>

InitReporting ==
    /\ IdleSystem
    /\ IdleAgg
    /\ csv = IdleCsv
    /\ series = IdleSeries
    /\ percent = IdlePercent
    /\ poller = IdlePoller
    /\ audience = IdleAudience
    /\ \E cases \in [KeySet -> ExternalJobCases] :
          reportingJobs = [IdleReporting EXCEPT !.jobsList = InitialJobs(cases, 1)]

NextReporting ==
    \/ EnsureBegin
    \/ EnsureList
    \/ EnsureKey
    \/ EnsureSave

SpecReporting == InitReporting /\ [][NextReporting]_vars

\* ======================================= buildAnalyticsSummary, audience
\* The audience queries buildAnalyticsSummary makes for one connection.  A
\* payload is null (ok FALSE: the request failed), or it has column headers
\* or none, and no rows (0) or one of MaxRowSets distinguishable row sets.
MaxRowSets == 2
audienceRanges == <<365, 90, 28>>
CandidateCount ==
    [q \in AudienceQueries |-> IF q = "geo" THEN 4 ELSE 1]
NullPayload == [ok |-> FALSE, headers |-> FALSE, rows |-> 0]
Payloads ==
    {NullPayload} \cup [ok : {TRUE}, headers : BOOLEAN, rows : 0..MaxRowSets]

\* parseAnalyticsRows: the row set of the payload, 0 for none.
parseAnalyticsRows(payload) ==
    IF ~payload.ok \/ ~payload.headers THEN 0 ELSE payload.rows

\* fetchForConnection: the payload of the request with the channel's ids,
\* else, when the connection has a channel id, of the one with channel==MINE.
fetchForConnection(hasChannelId, withPreferredIds, withMine) ==
    IF withPreferredIds.ok THEN withPreferredIds
    ELSE IF ~hasChannelId THEN NullPayload
    ELSE withMine

\* The window and candidate of the request after <<window, candidate>> in
\* the two loops of fetchRowsForConnection; window 0: there is none.
nextRequestCandidatesOuter(window, candidate, candidates) ==
    IF window < Len(audienceRanges) THEN <<window + 1, candidate>>
    ELSE IF candidate < candidates THEN <<1, candidate + 1>>
    ELSE <<0, 0>>
nextRequest(window, candidate, candidates) ==
    IF candidate < candidates THEN <<window, candidate + 1>>
    ELSE IF window < Len(audienceRanges) THEN <<window + 1, 1>>
    ELSE <<0, 0>>

\* The query begun once query has returned rows (0: none).
nextQuery(query, demographicRows) ==
    CASE query = "ageGender" -> IF demographicRows = 0 THEN "age" ELSE "geo"
      [] query = "age" -> "gender"
      [] query = "gender" -> "geo"
      [] query = "geo" -> "done"

\* The connection's token resolved, the totals and the time rows fetched:
\* the combined age and gender query begins.
AudienceBegin ==
    /\ audience.query = "idle"
    /\ audience' = [audience EXCEPT !.query = "ageGender"]
    /\ UNCHANGED <<refreshVars, now, tokens, reports, csv, series, percent,
                   poller, reportingJobs, aggVars>>

\* One round of the inner loop of fetchRowsForConnection: the request for
\* the current window and candidate, and what follows from its rows.
AudienceFetch ==
    \E withPreferredIds \in Payloads, withMine \in Payloads :
        LET query == audience.query
            payload == fetchForConnection(audience.hasChannelId,
                                          withPreferredIds, withMine)
            rows == parseAnalyticsRows(payload)
            following == nextRequest(audience.window, audience.candidate,
                                     CandidateCount[query])
            returns == rows # 0 \/ following[1] = 0
            demographicRows == IF query = "ageGender" THEN rows
                               ELSE audience.returned["ageGender"].rows
        IN  /\ query \in AudienceQueries
            /\ withPreferredIds.ok => withMine = NullPayload
            /\ audience' = [audience EXCEPT
                  !.issued = Append(@, [query |-> query,
                                        days |-> audienceRanges[audience.window],
                                        candidate |-> audience.candidate,
                                        rows |-> rows]),
                  !.returned[query] =
                      IF rows # 0
                      THEN [state |-> "rows", rows |-> rows,
                            days |-> audienceRanges[audience.window],
                            candidate |-> audience.candidate]
                      ELSE IF following[1] = 0
                      THEN [state |-> "none", rows |-> 0, days |-> 0,
                            candidate |-> 0]
                      ELSE @,
                  !.query = IF returns THEN nextQuery(query, demographicRows)
                            ELSE @,
                  !.window = IF returns THEN 1 ELSE following[1],
                  !.candidate = IF returns THEN 1 ELSE following[2]]
            /\ UNCHANGED <<refreshVars, now, tokens, reports, csv, series, percent,
                           poller, reportingJobs, aggVars>>

InitAnalytics ==
    /\ IdleSystem
    /\ IdleAgg
    /\ csv = IdleCsv
    /\ series = IdleSeries
    /\ percent = IdlePercent
    /\ poller = IdlePoller
    /\ reportingJobs = IdleReporting
    /\ \E hasChannelId \in BOOLEAN :
          audience = [IdleAudience EXCEPT !.hasChannelId = hasChannelId]

NextAnalytics ==
    \/ AudienceBegin
    \/ AudienceFetch

SpecAnalytics == InitAnalytics /\ [][NextAnalytics]_vars

\* ===================================== buildLiveYouTubeSummary, the lists
\* The return value of buildLiveYouTubeSummary for topPosts and the three
\* distributions.  A list of a source holds up to MaxEntries entries, each
\* marked with the source that made it.
MaxEntries == 2
DistributionFields == {"ageDistribution", "genderDistribution", "topGeos"}
ListsOf(source) ==
    { [i \in 1..n |-> [source |-> source, rank |-> i]] : n \in 0..MaxEntries }

mergedListsBySource(reportingSummary, analyticsSummary, fallbackTopPosts) ==
    [f \in DistributionFields \cup {"topPosts"} |->
        IF f = "topPosts"
        THEN IF Len(reportingSummary.topPosts) > 0 THEN reportingSummary.topPosts
             ELSE fallbackTopPosts
        ELSE IF \E g \in DistributionFields : Len(analyticsSummary[g]) > 0
             THEN analyticsSummary[f]
             ELSE reportingSummary[f]]
mergedLists(reportingSummary, analyticsSummary, fallbackTopPosts) ==
    [f \in DistributionFields \cup {"topPosts"} |->
        IF f = "topPosts"
        THEN IF Len(reportingSummary.topPosts) > 0 THEN reportingSummary.topPosts
             ELSE fallbackTopPosts
        ELSE IF Len(analyticsSummary[f]) > 0 THEN analyticsSummary[f]
             ELSE reportingSummary[f]]

ListsMerge ==
    /\ merge.given
    /\ ~merge.done
    /\ merge' = [merge EXCEPT
                   !.done = TRUE,
                   !.returned = mergedLists(merge.reportingSummary,
                                            merge.analyticsSummary,
                                            merge.fallbackTopPosts)]
    /\ UNCHANGED <<refreshVars, now, tokens, reports, csv, series, percent, poller,
                   reportingJobs, audience, ranking, followers>>

InitMerge ==
    /\ IdleSystem
    /\ csv = IdleCsv
    /\ series = IdleSeries
    /\ percent = IdlePercent
    /\ poller = IdlePoller
    /\ reportingJobs = IdleReporting
    /\ audience = IdleAudience
    /\ ranking = IdleRanking
    /\ followers = IdleFollowers
    /\ \E r \in [DistributionFields \cup {"topPosts"} -> ListsOf("reporting")],
          a \in [DistributionFields -> ListsOf("analytics")],
          f \in ListsOf("snapshot") :
          merge = [given |-> TRUE, done |-> FALSE, reportingSummary |-> r,
                   analyticsSummary |-> a, fallbackTopPosts |-> f,
                   returned |-> [g \in DistributionFields \cup {"topPosts"} |-> <<>>]]

NextMerge == ListsMerge

SpecMerge == InitMerge /\ [][NextMerge]_vars

\* ================================================ topPosts and topGeos
\* The ranked lists of buildReportingSummary and buildAnalyticsSummary.
\* The daily video rows are a sequence of up to MaxVideoRows rows, each a
\* video id and its views of one day; a geo map is a magnitude map.  The
\* caps of 10 posts and 5 geos are each scaled to 2.
MaxVideoRows == 4
MaxViews == 2
TOP_POSTS_LIMIT == 2
TOP_GEOS_LIMIT == 2
VideoIds == {"v1", "v2", "v3"}
VideoRowCases ==
    UNION { [1..n -> [videoId : VideoIds, views : 0..MaxViews]] :
               n \in 0..MaxVideoRows }

\* slice(0, n)
SliceTo(s, n) == SubSeq(s, 1, IF Len(s) < n THEN Len(s) ELSE n)

\* videoTotals: the Map from video id to summed views, in insertion order.
RECURSIVE videoTotals(_)
videoTotals(videoRows) ==
    IF videoRows = <<>> THEN <<>>
    ELSE LET before == videoTotals(SubSeq(videoRows, 1, Len(videoRows) - 1))
             row == videoRows[Len(videoRows)]
         IN  IF \E i \in 1..Len(before) : before[i].videoId = row.videoId
             THEN [i \in 1..Len(before) |->
                     IF before[i].videoId = row.videoId
                     THEN [before[i] EXCEPT !.views = @ + row.views]
                     ELSE before[i]]
             ELSE Append(before, row)

\* sort((a, b) => b[1].views - a[1].views): descending, ties in their order.
RECURSIVE SortByViewsDesc(_)
SortByViewsDesc(entries) ==
    IF entries = <<>> THEN <<>>
    ELSE LET i == CHOOSE k \in 1..Len(entries) :
                     \A l \in 1..Len(entries) :
                        \/ entries[l].views < entries[k].views
                        \/ (entries[l].views = entries[k].views /\ l >= k)
         IN  <<entries[i]>> \o SortByViewsDesc(RemoveAt(entries, i))

topVideoIdsSlicedFirst(videoRows) ==
    SortByViewsDesc(SliceTo(videoTotals(videoRows), TOP_POSTS_LIMIT))
topVideoIds(videoRows) ==
    SliceTo(SortByViewsDesc(videoTotals(videoRows)), TOP_POSTS_LIMIT)

\* topGeos of buildAnalyticsSummary and of buildReportingSummary.
topGeosAnalytics(geoMap) == SliceTo(buildPercentListAnalytics(geoMap), TOP_GEOS_LIMIT)
topGeosReporting(geoMap) == SliceTo(buildPercentListReporting(geoMap), TOP_GEOS_LIMIT)

RankPosts ==
    /\ ranking.given
    /\ ~ranking.postsDone
    /\ ranking' = [ranking EXCEPT !.postsDone = TRUE,
                                  !.topPosts = topVideoIds(ranking.videoRows)]
    /\ UNCHANGED <<refreshVars, now, tokens, reports, csv, series, percent, poller,
                   reportingJobs, audience, merge, followers>>

RankGeos ==
    /\ ranking.given
    /\ ~ranking.geosDone
    /\ ranking' = [ranking EXCEPT
                     !.geosDone = TRUE,
                     !.topGeosAnalytics = topGeosAnalytics(ranking.geoMap),
                     !.topGeosReporting = topGeosReporting(ranking.geoMap)]
    /\ UNCHANGED <<refreshVars, now, tokens, reports, csv, series, percent, poller,
                   reportingJobs, audience, merge, followers>>

InitRanking ==
    /\ IdleSystem
    /\ csv = IdleCsv
    /\ series = IdleSeries
    /\ percent = IdlePercent
    /\ poller = IdlePoller
    /\ reportingJobs = IdleReporting
    /\ audience = IdleAudience
    /\ merge = IdleMerge
    /\ followers = IdleFollowers
    /\ \E videoRows \in VideoRowCases, geoMap \in MapCases \cup {<<>>} :
          /\ videoRows = <<>> \/ geoMap = <<>>
          /\ ranking = [given |-> TRUE, videoRows |-> videoRows, geoMap |-> geoMap,
                        postsDone |-> FALSE, geosDone |-> FALSE,
                        topPosts |-> <<>>, topGeosAnalytics |-> <<>>,
                        topGeosReporting |-> <<>>]

NextRanking ==
    \/ RankPosts
    \/ RankGeos

SpecRanking == InitRanking /\ [][NextRanking]_vars

\* ==================================================== followersDelta30d
\* The channel-daily exports of the connections and the followersDelta30d
\* buildLiveYouTubeSummary puts in each channel's entry.  An export has one
\* row for each of its days (a day is a whole number of days, 1..MaxDay);
\* with subscriber columns every row reports the export's gained and lost
\* counts, without them both are null.  The window of 30 days is scaled to
\* FOLLOWER_WINDOW_DAYS.
MaxDay == 4
MaxGained == 2
MaxLost == 1
FOLLOWER_WINDOW_DAYS == 2
Absent == [present |-> FALSE, value |-> 0]
ExportCases ==
    [days : SUBSET (1..MaxDay), hasMetrics : {FALSE}, gained : {0}, lost : {0}]
        \cup [days : SUBSET (1..MaxDay), hasMetrics : {TRUE},
               gained : 0..MaxGained, lost : 0..MaxLost]

\* parseChannelReportRows and the loop of buildReportingSummary that
\* collects the rows of every connection's export.
channelRows(exports) ==
    {[channelId |-> c, day |-> d,
      hasNumbers |-> exports[c].hasMetrics,
      subscribersGained |-> exports[c].gained,
      subscribersLost |-> exports[c].lost] : c \in DOMAIN exports, d \in 1..MaxDay}
        \ {r \in [channelId : DOMAIN exports, day : 1..MaxDay, hasNumbers : BOOLEAN,
                   subscribersGained : 0..MaxGained, subscribersLost : 0..MaxLost] :
               r.day \notin exports[r.channelId].days}

Maximum(S) == CHOOSE x \in S : \A y \in S : y <= x

RECURSIVE SumNet(_)
SumNet(rows) ==
    IF rows = {} THEN 0
    ELSE LET r == CHOOSE x \in rows : TRUE
         IN  (IF r.hasNumbers THEN r.subscribersGained - r.subscribersLost ELSE 0)
             + SumNet(rows \ {r})

\* channelFollowerDeltas of buildReportingSummary.
channelFollowerDeltas(exports) ==
    LET rows == channelRows(exports)
        hasSubscriberMetrics == \E r \in rows : r.hasNumbers
        latestTime == Maximum({r.day : r \in rows})
        cutoffTime == latestTime - FOLLOWER_WINDOW_DAYS
        counted(c) == {r \in rows : r.channelId = c /\ r.day >= cutoffTime}
    IN  [c \in DOMAIN exports |->
            IF rows # {} /\ hasSubscriberMetrics /\ counted(c) # {}
            THEN [present |-> TRUE, value |-> SumNet(counted(c))]
            ELSE Absent]

\* hydratedChannels of buildLiveYouTubeSummary: followersDelta30d of each
\* channel entry, undefined when the delta is not a finite number.
hydratedChannels(followerDeltaByChannel) ==
    [c \in DOMAIN followerDeltaByChannel |->
        IF followerDeltaByChannel[c].present THEN followerDeltaByChannel[c]
        ELSE Absent]

FollowersBuild ==
    /\ followers.given
    /\ ~followers.done
    /\ followers' = [followers EXCEPT
                       !.done = TRUE,
                       !.followersDelta30d =
                           hydratedChannels(channelFollowerDeltas(followers.exports))]
    /\ UNCHANGED <<refreshVars, now, tokens, reports, csv, series, percent, poller,
                   reportingJobs, audience, merge, ranking>>

InitFollowers ==
    /\ IdleSystem
    /\ csv = IdleCsv
    /\ series = IdleSeries
    /\ percent = IdlePercent
    /\ poller = IdlePoller
    /\ reportingJobs = IdleReporting
    /\ audience = IdleAudience
    /\ merge = IdleMerge
    /\ ranking = IdleRanking
    /\ \E exports \in [Channels -> ExportCases] :
          followers = [given |-> TRUE, done |-> FALSE, exports |-> exports,
                       followersDelta30d |-> [c \in Channels |-> Absent]]

NextFollowers == FollowersBuild

SpecFollowers == InitFollowers /\ [][NextFollowers]_vars

\* ================================================================ claims
JobLevelFailure(j) == run[j].loadFailed \/ run[j].cacheFailed
ExternalFailure(j) == \E c \in run[j].conns : external[c] # "ok"
WrittenBy(j) ==
    /\ cache[jobs[j].userId].present
    /\ cache[jobs[j].userId].refreshJobId = j
    /\ ~run[j].cacheFailed

\* C1: every change of a job's stored status is queued->running,
\* running->succeeded or running->failed, whatever the store answers.
C1_StatusTransitions ==
    [][\A j \in JobIds :
          \/ jobs'[j].status = jobs[j].status
          \/ <<jobs[j].status, jobs'[j].status>> \in
                {<<"queued", "running">>, <<"running", "succeeded">>,
                 <<"running", "failed">>}]_vars

\* C2: an enqueue issued while a job of the user is queued or running
\* answers that job's id with deduped = true and inserts no row.
C2_DedupReturnsActiveJob ==
    (response.kind = "enqueue" /\ response.activeAtIssue # {})
        => /\ response.ok
           /\ response.deduped
           /\ response.jobId \in response.activeAtIssue
           /\ ~response.inserted

\* C3: under any interleaving of enqueue requests, at no time are two jobs
\* of one user both queued or running (stated for the runs in which every
\* store request succeeded: the interleaving alone decides it).
C3_OneActiveJobPerUser ==
    faults = 0 => \A u \in Users : Cardinality(ActiveJobsOf(u)) <= 1

\* C4: an enqueue with a minimum-interval guard issued less than that
\* interval after the requestedAt of the user's most recent job answers
\* that job's id and inserts no row.
C4_CooldownReturnsLatest ==
    (response.kind = "enqueue" /\ response.cooldownAtIssue # 0)
        => /\ response.ok
           /\ response.jobId = response.cooldownAtIssue
           /\ ~response.inserted

\* C5: every inserted job reaches succeeded or failed; in particular a job
\* whose detached execution has returned is succeeded or failed.
C5_FinishedJobIsTerminal ==
    \A j \in JobIds : run[j].pc = "done" => IsTerminal(jobs[j].status)

\* C6: a job whose connections could not be enumerated, or whose summary
\* could not be written to the cache, ends failed with a non-empty
\* errorMessage and is never succeeded.
C6_JobLevelFailureFails ==
    \A j \in JobIds :
        JobLevelFailure(j) =>
            /\ jobs[j].status # "succeeded"
            /\ run[j].pc = "done" =>
                  (jobs[j].status = "failed" /\ jobs[j].errorMessage # "")

\* C7: a job is failed only after a job-level failure; a job whose external
\* calls failed or threw, without a job-level failure, is never failed, and
\* the terminal status it takes is succeeded.
C7_FailedOnlyForJobLevelFailure ==
    \A j \in JobIds :
        /\ jobs[j].status = "failed" => JobLevelFailure(j)
        /\ (ExternalFailure(j) /\ ~JobLevelFailure(j) /\ IsTerminal(jobs[j].status))
              => jobs[j].status = "succeeded"

\* A job that ran over a connection whose calls all threw and ended succeeded.
C7_Witness ==
    \E j \in JobIds :
        /\ run[j].pc = "done"
        /\ jobs[j].status = "succeeded"
        /\ \E c \in run[j].conns : external[c] = "throw"

\* C8: when a job runs over several connections and every source call of
\* one of them fails or throws, the summary it writes to the cache includes
\* the other connections' data from every source, and the job ends
\* succeeded with channelsProcessed = channelsTotal (stated for the runs
\* in which every store request succeeded).
C8_OtherConnectionsKept ==
    \A j \in JobIds :
        \A x \in run[j].conns :
            LET others == run[j].conns \ {x}
            IN  (/\ faults = 0
                 /\ external[x] # "ok"
                 /\ others # {}
                 /\ \A c \in others : external[c] = "ok"
                 /\ run[j].pc \in {"final", "done"}
                 /\ WrittenBy(j))
                    => /\ others \subseteq cache[jobs[j].userId].summary.channels
                       /\ others \subseteq cache[jobs[j].userId].summary.reporting
                       /\ others \subseteq cache[jobs[j].userId].summary.analytics
                       /\ run[j].pc = "done" =>
                             /\ jobs[j].status = "succeeded"
                             /\ jobs[j].channelsProcessed = jobs[j].channelsTotal

\* C9: channelsProcessed <= channelsTotal in every state of every job, and
\* a succeeded job has channelsProcessed = channelsTotal.
C9_ProcessedWithinTotal ==
    \A j \in JobIds :
        /\ jobs[j].channelsProcessed <= jobs[j].channelsTotal
        /\ jobs[j].status = "succeeded" =>
              jobs[j].channelsProcessed = jobs[j].channelsTotal

\* C10: a job row is changed only by a step of its own execution, and once
\* it is succeeded or failed no step changes any of its fields.
C10_TerminalJobsImmutable ==
    [][\A j \in JobIds :
          /\ IsTerminal(jobs[j].status) => jobs'[j] = jobs[j]
          /\ jobs'[j] # jobs[j] => run'[j].pc # run[j].pc]_vars

\* An enqueue answered with a succeeded or failed job (cooldown), while
\* another job of the user exists.
C10_Witness ==
    /\ response.kind = "enqueue"
    /\ response.deduped
    /\ IsTerminal(jobs[response.jobId].status)
    /\ Len(jobs) > 1

SummaryRead ==
    /\ response.kind \in {"enqueue", "not_queued"}
    /\ response.caller.via = "summary"
AutoRefreshQueued == response.kind = "enqueue" /\ response.ok
InsertFailed == response.kind = "enqueue" /\ ~response.ok
StaleRead ==
    /\ SummaryRead
    /\ response.caller.rowRead.present
    /\ ~response.caller.fresh
    /\ response.caller.connected

C12_ResponsesDoNotWaitForPipeline ==
    [][response'.kind \in {"enqueue", "not_queued"} =>
          /\ \A j \in JobIds : jobs'[j] = jobs[j] /\ run'[j] = run[j]
          /\ (response'.kind = "enqueue" /\ response'.inserted) =>
                /\ response'.jobId = Len(jobs) + 1
                /\ response'.status = "queued"
                /\ jobs'[response'.jobId].status = "queued"
                /\ run'[response'.jobId].pc = "start"]_vars

\* A summary read answered with a new queued job while another job of the
\* user is still queued or running.
C12_Witness ==
    /\ SummaryRead
    /\ response.kind = "enqueue"
    /\ response.inserted
    /\ jobs[response.jobId].status = "queued"
    /\ \E j \in JobIds : j # response.jobId /\ IsActive(jobs[j].status)

C14_RequestErrorsChangeNothing ==
    [][/\ (response'.kind = "http_error" /\ response'.level = "request") =>
             (jobs' = jobs /\ run' = run /\ cache' = cache /\ pending' = pending)
       /\ response'.kind = "status" => jobs' = jobs]_vars

\* A request-level error answered while a job is queued or running and a
\* summary is cached.
C14_Witness ==
    /\ response.kind = "http_error"
    /\ response.level = "request"
    /\ \E j \in JobIds : IsActive(jobs[j].status)
    /\ \E u \in Users : cache[u].present

\* C15: after a disconnect answered ok, the connections it matched no
\* longer exist and the user's cached summary is deleted, so that a summary
\* read reports cacheStatus empty.
C15_DisconnectRemoves ==
    (response.kind = "disconnect" /\ response.ok) =>
        /\ connections[response.user] \cap response.matched = {}
        /\ ~cache[response.user].present
        /\ SummaryBody(cache[response.user]).cacheStatus = "empty"

\* The claim's condition for a refresh: no access token, or an expiry that
\* is known and at most 60 seconds after the time of the call.
RefreshDue(c) ==
    \/ c.connection.accessToken = ""
    \/ (c.connection.expiresAt # 0 /\ c.connection.expiresAt - c.calledAt <= 60000)
ExchangeFailed(c) == c.exchanged /\ c.refreshed.accessToken = ""
ExchangeSucceeded(c) == c.exchanged /\ c.refreshed.accessToken # ""
TokenPair(connection) == <<connection.accessToken, connection.expiresAt>>

\* C16: ensureValidAccessToken calls the refresh exchange if and only if the
\* access token is absent or its expiry is within 60 seconds of now or
\* past; a token expiring in 10 seconds is refreshed before the call
\* returns, a present token of unknown expiry (0) is returned as it is.
C16_RefreshExactlyWhenDue ==
    \A i \in CallIds :
        LET c == tokens.calls[i]
        IN  /\ c.pc = "refreshing" => RefreshDue(c)
            /\ c.pc \in {"persisting", "returned"} => (c.exchanged <=> RefreshDue(c))
            /\ (c.pc = "returned" /\ c.connection.accessToken # ""
                  /\ c.connection.expiresAt = c.calledAt + 10000) => c.exchanged
            /\ (c.connection.accessToken # "" /\ c.connection.expiresAt = 0)
                  => (c.pc = "returned" /\ ~c.exchanged
                      /\ c.result.accessToken = c.connection.accessToken)

\* A call on a token expiring in 10 seconds that returned a new token.
C16_Witness ==
    \E i \in CallIds :
        /\ tokens.calls[i].pc = "returned"
        /\ tokens.calls[i].connection.accessToken = "t0"
        /\ tokens.calls[i].connection.expiresAt = tokens.calls[i].calledAt + 10000
        /\ tokens.calls[i].result.accessToken \notin {"", "t0"}

\* C17: when the exchange fails, the call does not throw; it returns the
\* existing access token ("" if none) with the connection it was given and
\* does not invoke the persistence callback.
C17_FailedExchangeFallsBack ==
    \A i \in CallIds :
        LET c == tokens.calls[i]
        IN  /\ c.pc # "threw"
            /\ (c.pc = "returned" /\ ExchangeFailed(c)) =>
                  /\ c.result.accessToken = c.connection.accessToken
                  /\ c.result.connection = c.connection
                  /\ c.callbacks = 0

\* A call whose exchange threw a network exception and that returned the
\* expired token.
C17_Witness ==
    \E i \in CallIds :
        /\ tokens.calls[i].pc = "returned"
        /\ tokens.calls[i].outcome = "throw"
        /\ tokens.calls[i].result.accessToken = "t0"

\* C18: when the exchange succeeds, the persistence callback is invoked
\* exactly once before the return, with the input connection carrying the
\* new token and the new expiry, and that token and connection are returned.
C18_SuccessPersistsOnce ==
    \A i \in CallIds :
        LET c == tokens.calls[i]
            expected == [accessToken |-> c.refreshed.accessToken,
                         expiresAt |-> c.refreshed.expiresAt,
                         refreshToken |-> c.connection.refreshToken]
        IN  /\ c.callbacks <= 1
            /\ (c.pc = "returned" /\ ExchangeSucceeded(c)) =>
                  /\ c.callbacks = 1
                  /\ c.passed = expected
                  /\ c.result.accessToken = c.refreshed.accessToken
                  /\ c.result.connection = expected

\* A call that returned a new token with a new expiry, persisted.
C18_Witness ==
    \E i \in CallIds :
        /\ tokens.calls[i].pc = "returned"
        /\ ExchangeSucceeded(tokens.calls[i])
        /\ tokens.calls[i].refreshed.expiresAt # tokens.calls[i].connection.expiresAt
        /\ tokens.stored = tokens.calls[i].passed

\* C19: for interleaved calls on one connection, each caller receives the
\* token of its own exchange (the existing token when it failed), and the
\* stored connection holds a token and an expiry written together: those of
\* the last call that wrote, never a token of one exchange with the expiry
\* of another.
C19_RaceKeepsTokenAndExpiryTogether ==
    /\ \A i \in CallIds :
          LET c == tokens.calls[i]
          IN  c.pc = "returned" =>
                 c.result.accessToken =
                    IF ExchangeSucceeded(c) THEN c.refreshed.accessToken
                    ELSE c.connection.accessToken
    /\ TokenPair(tokens.stored) \in
          {TokenPair(tokens.initial)} \cup
          {TokenPair(tokens.calls[i].refreshed) :
              i \in {k \in CallIds : ExchangeSucceeded(tokens.calls[k])}}
    /\ tokens.writes # <<>> =>
          TokenPair(tokens.stored) =
             TokenPair(tokens.calls[tokens.writes[Len(tokens.writes)]].refreshed)

\* Two calls whose exchanges overlapped, both written, with different
\* tokens and different expiries.
C19_Witness ==
    /\ Len(tokens.writes) = 2
    /\ tokens.calls[1].connection = tokens.calls[2].connection
    /\ tokens.calls[1].refreshed.accessToken # tokens.calls[2].refreshed.accessToken
    /\ tokens.calls[1].refreshed.expiresAt # tokens.calls[2].refreshed.expiresAt

\* The exports among the REPORT_SCAN_LIMIT most recent whose CSV has a data
\* row, as positions in the listing ordered by time, newest first.
RecentWithRows ==
    {i \in 1..Len(orderedReports(reports.exports)) :
        i <= 12 /\ orderedReports(reports.exports)[i].rows > 0}

\* C20: getReportingDataForJob returns the parsed rows of the most recent
\* export, among the 12 most recent, whose CSV has a data row, whatever
\* earlier calls left in the parsed-report cache (for a call whose listing
\* and downloads all succeed).
C20_ReturnsFirstExportWithRows ==
    (reports.returned /\ reports.listOk /\ reports.failed = {}
        /\ RecentWithRows # {}) =>
        LET first == CHOOSE i \in RecentWithRows : \A k \in RecentWithRows : i <= k
            report == orderedReports(reports.exports)[first]
        IN  reports.result = [reportId |-> report.id, data |-> report.rows]

\* The call went past the cache check and scanned the listed exports.
ReportsScanned ==
    /\ reports.returned
    /\ reports.listOk
    /\ reports.exports # <<>>
    /\ ~(reports.before.reportId # 0
           /\ \E i \in 1..Len(reports.exports) :
                 reports.exports[i].id = reports.before.reportId)

\* C21: when exports are listed and each of the 12 most recent parses to no
\* data row, the call caches and returns the most recent with empty data;
\* and an empty-data record is never the product of a failed download or a
\* failed listing.
C21_EmptyRecordMeansNoData ==
    LET ordered == orderedReports(reports.exports)
    IN  /\ (reports.returned /\ reports.listOk /\ reports.failed = {}
            /\ ordered # <<>>
            /\ \A i \in 1..Len(ordered) : i <= 12 => ordered[i].rows = 0)
           => /\ reports.result = [reportId |-> ordered[1].id, data |-> 0]
              /\ reports.cached = reports.result
        /\ (reports.returned /\ ~reports.listOk)
           => (reports.result = NoReport /\ reports.cached = reports.before)
        /\ ReportsScanned
           => ~(reports.result.data = 0
                 /\ reports.result.reportId \in reports.failed)

\* C22: a call that finds listed an export newer than the cached one (the
\* exports are numbered in the order they were published) selects again
\* among the listed exports; without a newer export it returns the cached
\* entry.
C22_NewerExportInvalidatesCache ==
    (reports.returned /\ reports.listOk /\ reports.failed = {}
        /\ reports.exports # <<>> /\ reports.before.reportId # 0) =>
        IF \E i \in 1..Len(reports.exports) :
              reports.exports[i].time > reports.before.reportId
        THEN reports.result =
                scanReports(orderedReports(reports.exports), reports.failed)
        ELSE reports.result = reports.before

\* The rows of the table that parseCsvRows keeps: those with a value that is
\* not blank.
KeptRows(table) ==
    SelectSeq(table, LAMBDA row : \E k \in 1..Len(row) : TrimmedNonEmpty(row[k]))

\* C23: parseCsvRows gives back the field values that were written: commas,
\* line breaks and quotes of a quoted field are characters of its value
\* (a doubled quote one quote), rows end at LF, CRLF or CR outside quotes
\* with the same rows for each of the three line endings, and the content
\* "a,b""c" parses to the one row of the one field a,b"c.
C23_ParsesWhatWasWritten ==
    csv.parsed =>
        /\ csv.rows = KeptRows(csv.table)
        /\ csv.content = <<Quote, "a", Comma, "b", Quote, Quote, "c", Quote>>
              => csv.rows = << << <<"a", Comma, "b", Quote, "c">> >> >>

\* Two rows written with CRLF line endings and parsed: the first the field
\* a,b"c, the second a quoted CRLF and the field a.
C23_Witness ==
    /\ csv.parsed
    /\ Len(csv.rows) = 2
    /\ csv.rows[1] = << <<"a", Comma, "b", Quote, "c">> >>
    /\ csv.rows[2] = << <<CR, LF>>, <<"a">> >>
    /\ SubSeq(csv.content, 8, 14) = <<Quote, CR, LF, Quote, CR, LF, Quote>>

\* A series has a point with nonzero views, engagements or posts.
NonZeroSeries(s) ==
    \E i \in 1..Len(s) :
        s[i].views # 0 \/ s[i].engagements # 0 \/ s[i].posts # 0

\* C24: the merged timeSeries is one source's series as a whole: the
\* Analytics series if it has a nonzero point, else the Reporting series if
\* it has one, else the Snapshot series if it has one, else the first
\* non-empty of the three in that order; when only the Reporting series has
\* nonzero points the merged series is the Reporting series.
C24_TimeSeriesFromOneSource ==
    series.done =>
        /\ series.merged \in {series.analytics, series.reporting, series.snapshot}
        /\ series.merged =
              IF NonZeroSeries(series.analytics) THEN series.analytics
              ELSE IF NonZeroSeries(series.reporting) THEN series.reporting
              ELSE IF NonZeroSeries(series.snapshot) THEN series.snapshot
              ELSE IF series.analytics # <<>> THEN series.analytics
              ELSE IF series.reporting # <<>> THEN series.reporting
              ELSE series.snapshot
        /\ (NonZeroSeries(series.reporting)
               /\ ~NonZeroSeries(series.analytics)
               /\ ~NonZeroSeries(series.snapshot))
              => series.merged = series.reporting

\* Merged: an Analytics series of zero points only, a Reporting series with
\* a nonzero point, no Snapshot series.
C24_Witness ==
    /\ series.done
    /\ Len(series.analytics) = 2
    /\ ~NonZeroSeries(series.analytics)
    /\ NonZeroSeries(series.reporting)
    /\ series.snapshot = <<>>
    /\ series.merged = series.reporting
    /\ series.merged # series.analytics

\* What C25 says of one percent list built from the map percent.map.
PercentListAsClaimed(list) ==
    LET n == Len(percent.map)
        total == SumValues(percent.map)
    IN  /\ Len(list) = n
        /\ \A i \in 1..n :
              \E k \in 1..Len(list) :
                 /\ list[k].label = percent.map[i].label
                 /\ total # 0 =>
                       list[k].value = MathRound(100 * percent.map[i].value, total)
        /\ SumValues(list) >= 100 - (n - 1)
        /\ SumValues(list) <= 100 + (n - 1)
        /\ \A k \in 1..(Len(list) - 1) : list[k].value >= list[k + 1].value
        /\ \A k \in 1..Len(list) : list[k].value >= 0

\* C25: the percent list built from a non-empty magnitude map of n labels,
\* in the audience and in the reporting summary, has one entry per label
\* with value round(100 * magnitude / total), sums to 100 within n - 1, is
\* sorted descending by value and has no negative entry.
C25_PercentListSumsTo100 ==
    percent.done =>
        /\ PercentListAsClaimed(percent.analytics)
        /\ PercentListAsClaimed(percent.reporting)

\* How a settled call ended, as C26 says it may end.
PollerSettledAsClaimed ==
    /\ poller.progress = poller.reads
    /\ poller.pc = "resolved" =>
          /\ poller.result \in {"succeeded", "failed"}
          /\ poller.result = poller.reads[Len(poller.reads)]
          /\ \A i \in 1..(Len(poller.reads) - 1) :
                poller.reads[i] \notin {"succeeded", "failed"}
    /\ poller.pc = "rejected" =>
          /\ poller.error = "timeout"
          /\ poller.elapsed > POLL_TIMEOUT_MS

\* C26: waitForYouTubeRefresh reports every status it reads through
\* onProgress, resolves only with the first succeeded or failed status it
\* reads, otherwise rejects with the timeout error once the timeout has
\* elapsed, and always settles.
C26_PollerSettlesOnStatusOrTimeout ==
    [](PollerSettledAsClaimed) /\ <>(poller.pc \in {"resolved", "rejected"})

\* C27: a job in status succeeded has written the user's cached summary
\* before: its cache write took place, and the row it wrote (as long as no
\* later write or delete replaced it) holds its summary as a whole, its id
\* as refreshJobId and a generatedAt not earlier than its startedAt.
C27_CacheWrittenBeforeSucceeded ==
    \A j \in JobIds :
        jobs[j].status = "succeeded" =>
            /\ ~run[j].cacheFailed
            /\ (cache[jobs[j].userId].present
                  /\ cache[jobs[j].userId].refreshJobId = j)
                 => /\ cache[jobs[j].userId].summary = SummaryOf(j)
                    /\ cache[jobs[j].userId].generatedAt >= jobs[j].startedAt

\* The step just taken answered a POST /api/youtube/refresh that went as
\* far as its dedup check or its insert.
PostAnswered == response.kind = "enqueue" /\ response.caller.via = "post"

\* C28 as stated: a POST issued when the user's latest job is succeeded or
\* failed inserts a job and answers deduped = false, and deduped is true
\* exactly when no row was inserted.
C28_ManualRefreshAlwaysInserts ==
    PostAnswered =>
        /\ IsTerminal(response.latestStatusAtIssue)
              => (response.inserted /\ ~response.deduped)
        /\ response.deduped <=> ~response.inserted

\* C28 amended: a POST issued when the user's latest job is succeeded or
\* failed is never answered with that job: it inserts a queued job and
\* answers deduped = false, or its insert request fails and it answers an
\* error; in a 202 answer deduped is true exactly when no row was inserted.
C28_ManualRefreshInsertsUnlessInsertFails ==
    PostAnswered =>
        /\ IsTerminal(response.latestStatusAtIssue) =>
              /\ ~response.deduped
              /\ response.ok => /\ response.inserted
                                /\ response.status = "queued"
                                /\ response.jobId \in JobIds
                                /\ jobs[response.jobId].status = "queued"
              /\ ~response.ok => (~response.inserted /\ response.jobId = 0)
        /\ response.ok => (response.deduped <=> ~response.inserted)

\* A POST issued in the same tick in which the previous job was requested
\* and ended, answered with a new job.
C28_Witness ==
    /\ PostAnswered
    /\ response.latestStatusAtIssue = "succeeded"
    /\ response.inserted
    /\ response.jobId = 2
    /\ jobs[1].status = "succeeded"
    /\ jobs[1].requestedAt = jobs[2].requestedAt

\* C29: ensureReportingJobs creates an external job for a report key only
\* when the channel has no job recorded for the key and the external job
\* list holds no job of its type; a recorded job id is never replaced or
\* removed, and a call that began with a job recorded for a key returns that
\* id and creates no job for the key.
C29_JobsCreatedOnceAndKept ==
    /\ reportingJobs.createdWhenPresent = {}
    /\ reportingJobs.replaced = {}
    /\ \A c \in 1..Len(reportingJobs.calls) :
          \A k \in KeySet :
             LET call == reportingJobs.calls[c]
             IN  (call.pc = "done" /\ call.began[k] # 0) =>
                    (call.returned[k] = call.began[k] /\ k \notin call.created)

\* The requests issued for an audience query, in the order of issue, and
\* the order stated for them: window by window, 365, 90, 28 days, and
\* within a window candidate by candidate.
IssuedFor(q) == SelectSeq(audience.issued, LAMBDA e : e.query = q)
StatedOrder(q) ==
    [n \in 1..(3 * CandidateCount[q]) |->
        [days |-> <<365, 90, 28>>[((n - 1) \div CandidateCount[q]) + 1],
         candidate |-> ((n - 1) % CandidateCount[q]) + 1]]

\* C30: the requests of each audience query are issued window by window
\* (365, 90, 28 days) and candidate by candidate; the query returns the
\* rows of the first request with non-empty rows and issues nothing after
\* it, and returns no rows only when every window and candidate was asked
\* and gave none; the age-only and gender-only queries are issued only when
\* the combined query gave no rows in every window.
C30_FirstNonEmptyWindowAndCandidate ==
    \A q \in AudienceQueries :
        LET issued == IssuedFor(q)
            order == StatedOrder(q)
            returned == audience.returned[q]
        IN  /\ Len(issued) <= Len(order)
            /\ \A n \in 1..Len(issued) :
                  /\ issued[n].days = order[n].days
                  /\ issued[n].candidate = order[n].candidate
                  /\ n < Len(issued) => issued[n].rows = 0
            /\ returned.state = "rows" <=>
                  (issued # <<>> /\ issued[Len(issued)].rows # 0)
            /\ returned.state = "rows" =>
                  /\ returned.rows = issued[Len(issued)].rows
                  /\ returned.days = issued[Len(issued)].days
                  /\ returned.candidate = issued[Len(issued)].candidate
            /\ returned.state = "none" <=>
                  (Len(issued) = Len(order) /\ issued[Len(issued)].rows = 0)
            /\ (q \in {"age", "gender"} /\ issued # <<>>) =>
                  /\ audience.returned["ageGender"].state = "none"
                  /\ Len(IssuedFor("ageGender")) = 3

\* The combined query gave nothing in any window, the age query found rows
\* in the last window only, and the geo query found them with its second
\* candidate in the second window.
C30_Witness ==
    /\ audience.query = "done"
    /\ audience.returned["ageGender"].state = "none"
    /\ audience.returned["age"].state = "rows"
    /\ audience.returned["age"].days = 28
    /\ audience.returned["gender"].state = "none"
    /\ audience.returned["geo"].state = "rows"
    /\ audience.returned["geo"].days = 90
    /\ audience.returned["geo"].candidate = 2
    /\ Len(IssuedFor("geo")) = 6

\* C31: each of the four fields is one source's list as a whole: topPosts
\* the reporting list when it is non-empty and else the snapshot list, each
\* distribution the analytics list when that list is non-empty and else
\* the reporting list, decided for each field on its own; no returned list
\* holds entries of two sources.
C31_EachFieldFromOneSource ==
    (merge.given /\ merge.done) =>
        /\ merge.returned.topPosts =
              IF merge.reportingSummary.topPosts # <<>>
              THEN merge.reportingSummary.topPosts
              ELSE merge.fallbackTopPosts
        /\ \A f \in DistributionFields :
              merge.returned[f] =
                  IF merge.analyticsSummary[f] # <<>>
                  THEN merge.analyticsSummary[f]
                  ELSE merge.reportingSummary[f]
        /\ \A f \in DOMAIN merge.returned :
              \A i, k \in 1..Len(merge.returned[f]) :
                  merge.returned[f][i].source = merge.returned[f][k].source

\* The four fields come from three sources at once: topPosts from the
\* snapshot, the ages from analytics, the genders from reporting although
\* analytics has ages and geos.
C31_Witness ==
    /\ merge.given
    /\ merge.done
    /\ Len(merge.returned.topPosts) = 2
    /\ merge.returned.topPosts[1].source = "snapshot"
    /\ Len(merge.returned.ageDistribution) = 2
    /\ merge.returned.ageDistribution[1].source = "analytics"
    /\ Len(merge.returned.genderDistribution) = 1
    /\ merge.returned.genderDistribution[1].source = "reporting"
    /\ Len(merge.returned.topGeos) = 1
    /\ merge.returned.topGeos[1].source = "analytics"

\* The views of a video summed over all its daily rows.
RECURSIVE SummedViews(_, _)
SummedViews(videoRows, videoId) ==
    IF videoRows = <<>> THEN 0
    ELSE (IF Head(videoRows).videoId = videoId THEN Head(videoRows).views ELSE 0)
         + SummedViews(Tail(videoRows), videoId)

\* A list holds at most limit entries of the full list, as many as the
\* full list has up to the limit, in descending order of the field, and no
\* entry left out ranks above an entry kept.
TopOf(list, full, limit, Rank(_)) ==
    /\ Len(list) = (IF Len(full) < limit THEN Len(full) ELSE limit)
    /\ \A i \in 1..Len(list) : \E k \in 1..Len(full) : full[k] = list[i]
    /\ \A i, k \in 1..Len(list) : i < k => Rank(list[i]) >= Rank(list[k])
    /\ \A k \in 1..Len(full) :
          (\A i \in 1..Len(list) : list[i].name # full[k].name) =>
              \A i \in 1..Len(list) : Rank(list[i]) >= Rank(full[k])

\* C32: the reporting topPosts are the videos with the highest views
\* summed over all their daily rows, each once, in descending order of the
\* sum and at most TOP_POSTS_LIMIT of them; topGeos holds at most
\* TOP_GEOS_LIMIT entries, the labels of the percent list with the
\* highest percentages.
C32_RankedThenTruncated ==
    /\ (ranking.given /\ ranking.postsDone) =>
          LET ids == {ranking.videoRows[i].videoId : i \in 1..Len(ranking.videoRows)}
              posts == ranking.topPosts
          IN  /\ Len(posts) = (IF Cardinality(ids) < TOP_POSTS_LIMIT
                                THEN Cardinality(ids) ELSE TOP_POSTS_LIMIT)
              /\ \A i \in 1..Len(posts) :
                    /\ posts[i].videoId \in ids
                    /\ posts[i].views = SummedViews(ranking.videoRows, posts[i].videoId)
              /\ \A i, k \in 1..Len(posts) :
                    /\ i < k => posts[i].views >= posts[k].views
                    /\ i # k => posts[i].videoId # posts[k].videoId
              /\ \A v \in ids :
                    (\A i \in 1..Len(posts) : posts[i].videoId # v) =>
                        \A i \in 1..Len(posts) :
                            posts[i].views >= SummedViews(ranking.videoRows, v)
    /\ (ranking.given /\ ranking.geosDone) =>
          LET Named(list) == [i \in 1..Len(list) |->
                                 [name |-> list[i].label, value |-> list[i].value]]
              Value(e) == e.value
          IN  /\ TopOf(Named(ranking.topGeosAnalytics),
                       Named(buildPercentListAnalytics(ranking.geoMap)),
                       TOP_GEOS_LIMIT, Value)
              /\ TopOf(Named(ranking.topGeosReporting),
                       Named(buildPercentListReporting(ranking.geoMap)),
                       TOP_GEOS_LIMIT, Value)

\* Three videos, one of them with rows of two days whose sum ranks it
\* first; the video with the fewest views is left out.
C32_Witness ==
    /\ ranking.given
    /\ ranking.postsDone
    /\ ranking.videoRows = <<[videoId |-> "v1", views |-> 1],
                             [videoId |-> "v2", views |-> 2],
                             [videoId |-> "v3", views |-> 1],
                             [videoId |-> "v3", views |-> 2]>>
    /\ ranking.topPosts = <<[videoId |-> "v3", views |-> 3],
                            [videoId |-> "v2", views |-> 2]>>

\* The rows of a channel's export in the window of FOLLOWER_WINDOW_DAYS
\* days that ends at the export's most recent day.
LatestWindowRows(exports, c) ==
    LET mine == {r \in channelRows(exports) : r.channelId = c}
        latest == Maximum({r.day : r \in mine})
    IN  {r \in mine : r.day > latest - FOLLOWER_WINDOW_DAYS}

\* C33: the followersDelta30d of a channel whose export has rows with
\* subscriber metrics is the sum of gained minus lost over the rows of that
\* export in the latest window ending at the export's most recent day, at
\* most one row for each day of the window.
C33_DeltaOverLatestWindow ==
    (followers.given /\ followers.done) =>
        \A c \in DOMAIN followers.exports :
            (followers.exports[c].hasMetrics /\ followers.exports[c].days # {}) =>
                /\ Cardinality(LatestWindowRows(followers.exports, c))
                      <= FOLLOWER_WINDOW_DAYS
                /\ followers.followersDelta30d[c].present
                /\ followers.followersDelta30d[c].value =
                      SumNet(LatestWindowRows(followers.exports, c))

\* C34: the entry of a channel whose export reports no subscriber metrics
\* has no followersDelta30d at all, and an entry that has one belongs to
\* a channel with channel-daily rows.
C34_AbsentWithoutSubscriberMetrics ==
    (followers.given /\ followers.done) =>
        \A c \in DOMAIN followers.exports :
            /\ ~followers.exports[c].hasMetrics =>
                  ~followers.followersDelta30d[c].present
            /\ followers.followersDelta30d[c].present =>
                  followers.exports[c].days # {}

\* C35: a summary read that reports autoRefresh.queued = true names a job
\* that this read inserted or that is queued or running at that moment; a
\* read that inserted nothing and found only a succeeded or failed job
\* inside the cooldown window reports queued = false.
C35_QueuedMeansInsertedOrActive ==
    (SummaryRead /\ AutoRefreshQueued) =>
        (response.inserted \/ IsActive(jobs[response.jobId].status))

\* C36: with every store request succeeding, once every job of a user has
\* returned the cached summary holds no channel that was disconnected.
C36_DisconnectNotUndoneByJob ==
    \A u \in Users :
        (/\ faults = 0
         /\ pending = <<>>
         /\ \A j \in JobIds : jobs[j].userId = u => run[j].pc = "done"
         /\ cache[u].present)
            => cache[u].summary.channels \subseteq connections[u]

\* C37: a job that ends failed does not modify the cached summary: a step
\* of a job changes the cached row only when it goes on to the last update
\* of the try block, from where the catch block is not entered; the catch
\* block is entered only from the steps before the cache write, and the
\* step that writes status failed is the catch block's, which leaves the
\* cached row as it is.
C37_FailedJobLeavesCache ==
    [][\A j \in JobIds :
          /\ (run'[j] # run[j] /\ cache' # cache) =>
                (run[j].pc = "cache" /\ run'[j].pc = "final")
          /\ run[j].pc = "final" => run'[j].pc \in {"final", "done"}
          /\ (run'[j].pc = "catch" /\ run[j].pc # "catch") =>
                run[j].pc \in {"load", "build"}
          /\ (jobs'[j].status = "failed" /\ jobs[j].status # "failed") =>
                (run[j].pc = "catch" /\ cache' = cache)
          /\ (run[j].pc = "catch" /\ run'[j].pc # "catch") => cache' = cache]_vars

\* A job ended failed while the summary another job wrote is still cached.
C37_Witness ==
    \E j \in JobIds :
        /\ jobs[j].status = "failed"
        /\ run[j].pc = "done"
        /\ cache[jobs[j].userId].present
        /\ cache[jobs[j].userId].refreshJobId # j
        /\ jobs[cache[jobs[j].userId].refreshJobId].status = "succeeded"

\* C38: an enqueue inserts a job only when, at the time it was issued, the
\* user's most recent job was not queued or running, also when its lookup
\* of that job failed.
C38_NoInsertWhileLatestActive ==
    (response.kind = "enqueue" /\ response.inserted)
        => ~response.latestActiveAtIssue

\* C39: a status read answers a job only to the user that owns it and
\* answers not found for another user's job; an enqueue is answered only
\* with a job of the user it is for, and when that user has no queued or
\* running job and no job of its own inside the cooldown window, it is not
\* answered with an existing job, whatever jobs other users have.
C39_JobsScopedToUser ==
    /\ response.kind = "status" => jobs[response.jobId].userId = response.user
    /\ (response.kind = "http_error" /\ response.level = "request") =>
          (response.jobId \notin JobIds
             \/ jobs[response.jobId].userId # response.user)
    /\ (response.kind = "enqueue" /\ response.ok) =>
          /\ jobs[response.jobId].userId = response.user
          /\ (response.activeAtIssue = {} /\ response.cooldownAtIssue = 0)
                => (response.inserted /\ ~response.deduped)
    /\ (response.kind = "enqueue" /\ response.deduped) =>
          \E j \in JobIds : jobs[j].userId = response.user

\* u2's enqueue with the cooldown guard inserted a job while a job of u1,
\* requested at the same time, is queued or running.
C39_Witness ==
    /\ response.kind = "enqueue"
    /\ response.user = "u2"
    /\ response.trigger = "auto"
    /\ response.inserted
    /\ \E j \in JobIds :
          /\ jobs[j].userId = "u1"
          /\ IsActive(jobs[j].status)
          /\ jobs[j].requestedAt = now

\* u2 read the id of a job of u1 and was answered not found.
C39_WitnessNotFound ==
    /\ response.kind = "http_error"
    /\ response.level = "request"
    /\ response.user = "u2"
    /\ response.jobId \in JobIds
    /\ jobs[response.jobId].userId = "u1"

\* C40: in every state of a job, startedAt is set exactly when its status
\* is not queued, finishedAt is set exactly when its status is succeeded or
\* failed, and errorMessage is non-empty only when its status is failed.
C40_TimestampsAgreeWithStatus ==
    \A j \in JobIds :
        /\ jobs[j].startedAt # NULL <=> jobs[j].status # "queued"
        /\ jobs[j].finishedAt # NULL <=> IsTerminal(jobs[j].status)
        /\ jobs[j].errorMessage # "" => jobs[j].status = "failed"

====